---- MODULE Spec2Model ----
(***************************************************************************)
(* RobotMind Lite: the episode / reward state machine of the simulated     *)
(* robot environment (backend/simulation/gym_env.py, world.py, robot.py).  *)
(*                                                                         *)
(* Units.  Lengths are integers in milli-pixels (1 px = 1000), headings    *)
(* are integer degrees, velocities are milli-pixels per second and         *)
(* rewards are integers in thousandths (reward -40.0 is -40000).  The      *)
(* physics engine (pymunk) is an external library: space_step below is a   *)
(* kinematic abstraction of Space.step + shape_query, which reports        *)
(* contact with a wall nondeterministically when the robot only touches.   *)
(* The ray-dependent shaping terms of the reward (proximity, clearance,    *)
(* idle, sensor-action coupling, alignment, soft-stuck) write no state and *)
(* are not part of the modelled reward; every term that the episode logic  *)
(* or the episode memory depends on is.                                    *)
(***************************************************************************)
EXTENDS Integers, Sequences, FiniteSets, TLC

VARIABLES
    profile_config, \* the resolved profile the instance was constructed with
    env,            \* the environment instance (RobotEnv / CurriculumRobotEnv)
    ret,            \* what the last call on env returned or raised
    calls,          \* number of step() calls made on env since construction
    episode,        \* bookkeeping over the steps since the last reset() call
    twin,           \* a second instance built from the same profile
    twin_ret,       \* what the last call on twin returned or raised
    visited,        \* the marked cells of a VisitedGridWrapper around env
    live,           \* the LiveEnvManager that owns env: its lock, where
                    \* each thread is in its call, what each call returned
    batch,          \* a batch evaluation of a trained model on env: where
                    \* its episode loop is and the records it has so far
    trainer         \* the TrainingManager: its current state, stop signal
                    \* and task, the run records, the training threads

vars ==
    <<profile_config, env, ret, calls, episode, twin, twin_ret, visited,
      live, batch, trainer>>

(***************************************************************************)
(* Bounds of the model.                                                    *)
(***************************************************************************)
MaxCalls == 5        \* calls (reset or step) explored per instance
MaxEpisodes == 2     \* reset() calls explored per instance
MaxTurns == 7        \* turn steps explored by the caller that only turns

(***************************************************************************)
(* Program constants.                                                      *)
(***************************************************************************)
HeadingHistoryMaxLen == 20     \* deque(maxlen=20)
SpinMinSamples == 10           \* len(self._heading_history) >= 10
SpinTurnThreshold == 80        \* _total_turn > 80.0
SpinPosChange == 3             \* pos_change < 3.0
visit_grid_size == 16          \* self._visit_grid_size = 16
TerminateCollisions == 2       \* self._consecutive_collisions >= 2
CollisionReward == -40000      \* reward = -40.0
StepSurvivalReward == 10       \* reward = 0.01
ExplorationReward == 15        \* reward += 0.015
SpinPenalty == 500             \* reward -= 0.50
GoalReward == 100000           \* reward += 100.0
CompletionReward == 12000      \* reward += 12.0
StepsPerSecond == 30           \* World.step(dt = 1 / 30)

NoSeed == -1                   \* seed: int | None = None
Inf == -1                      \* float("inf"): no distance recorded yet

Milli(px) == px * 1000
Sq(a) == a * a
Min(a, b) == IF a < b THEN a ELSE b
Max(a, b) == IF a > b THEN a ELSE b
Abs(a) == IF a < 0 THEN -a ELSE a

(***************************************************************************)
(* math.cos / math.sin in thousandths, for headings that are multiples of  *)
(* the 12-degree turn rate.                                                *)
(***************************************************************************)
CosTable ==
    << 1000, 978, 914, 809, 669, 500, 309, 105, -105, -309, -500, -669, -809,
       -914, -978, -1000, -978, -914, -809, -669, -500, -309, -105, 105, 309,
       500, 669, 809, 914, 978 >>

SinTable ==
    << 0, 208, 407, 588, 743, 866, 951, 995, 995, 951, 866, 743, 588, 407,
       208, 0, -208, -407, -588, -743, -866, -951, -995, -995, -951, -866,
       -743, -588, -407, -208 >>

cos(deg) == CosTable[((deg % 360) \div 12) + 1]
sin(deg) == SinTable[((deg % 360) \div 12) + 1]

RECURSIVE NewtonSqrt(_, _)
NewtonSqrt(n, g) ==
    LET h == (g + n \div g) \div 2
    IN  IF h >= g THEN g ELSE NewtonSqrt(n, h)

\* float(np.sqrt(n)), rounded down to the thousandth the model keeps
sqrt(n) == IF n = 0 THEN 0 ELSE NewtonSqrt(n, n)

(***************************************************************************)
(* Profiles (presets.py), scaled down to an arena of 16 x 12 px so that    *)
(* walls, goal and step limit are met within a few steps.  The robot       *)
(* starts at the centre (8, 6); with speed 60 px/s one forward step moves  *)
(* it 2 px.  Noise is off and the scale ranges are [1, 1], as in           *)
(* arena_basic, except in the noisy profile.                               *)
(***************************************************************************)
Obstacle(x, y, w, h) == [x |-> x, y |-> y, width |-> w, height |-> h]

LayoutA == << Obstacle(3, 2, 2, 1) >>
LayoutB == << Obstacle(3, 9, 2, 1), Obstacle(11, 2, 1, 1) >>

BaseProfile ==
    [ env_class |-> "RobotEnv",
      flat_ground_model |-> "differential",
      width |-> 16, height |-> 12, wall_margin |-> 1,
      obstacles |-> LayoutA,
      layouts |-> << >>,
      has_goal |-> FALSE,
      goal |-> [x |-> 0, y |-> 0, radius |-> 18],
      radius |-> 1, speed |-> 60, turn_rate_degrees |-> 12,
      max_steps |-> 4,
      randomize_spawn |-> FALSE,
      randomize_goal |-> FALSE,
      reverse_enabled |-> FALSE,
      has_fixed_spawn |-> FALSE, spawn_x |-> 0, spawn_y |-> 0,
      speed_scale_min |-> 1000, speed_scale_max |-> 1000,
      turn_scale_min |-> 1000, turn_scale_max |-> 1000,
      ray_count |-> 11, ray_length |-> 4, ray_fov_degrees |-> 120,
      arg_ray_count |-> 8,      \* the constructor's ray_count: int = 8
      sensor_angles |-> << >>,  \* sensor_cfg.get("sensor_angles"): absent
      sensor_noise_std |-> 0,
      heading_drift_std |-> 0,
      turn_noise_std |-> 0,
      speed_noise_std |-> 0 ]

GoalProfile ==
    [BaseProfile EXCEPT !.has_goal = TRUE,
                        !.goal = [x |-> 13, y |-> 6, radius |-> 1]]

CurriculumProfile ==
    [GoalProfile EXCEPT !.env_class = "CurriculumRobotEnv",
                        !.layouts = << LayoutA, LayoutB >>,
                        !.randomize_spawn = TRUE,
                        !.randomize_goal = TRUE]

\* a profile with every noise source on and a scale range that is not a point
NoisyProfile ==
    [GoalProfile EXCEPT !.sensor_noise_std = 50,
                        !.heading_drift_std = 12,
                        !.turn_noise_std = 12,
                        !.speed_noise_std = 100,
                        !.speed_scale_min = 500]

NoisyCurriculumProfile ==
    [CurriculumProfile EXCEPT !.sensor_noise_std = 50,
                              !.speed_noise_std = 100]

\* sensor configurations with fewer than two rays: one ray configured, one
\* ray configured and asked for, one fixed sensor angle
OneRayProfile ==
    [BaseProfile EXCEPT !.ray_count = 1, !.ray_fov_degrees = 168]

SingleRayProfile ==
    [BaseProfile EXCEPT !.ray_count = 1, !.arg_ray_count = 1]

FixedAngleProfile ==
    [GoalProfile EXCEPT !.sensor_angles = << 0 >>,
                        !.sensor_noise_std = 50]

\* an arena too small for a goal 32 pixels away from the robot, with an
\* obstacle in its far corner, and the same arena filled by one obstacle
SmallArenaProfile ==
    [GoalProfile EXCEPT !.width = 36, !.height = 28,
                        !.obstacles = << Obstacle(23, 15, 2, 2) >>,
                        !.goal = [x |-> 30, y |-> 14, radius |-> 1],
                        !.randomize_spawn = TRUE,
                        !.randomize_goal = TRUE]

CrowdedProfile ==
    [SmallArenaProfile EXCEPT !.obstacles = << Obstacle(4, 4, 28, 20) >>]

\* profiles run by the continuous-action environment
ContinuousProfile ==
    [GoalProfile EXCEPT !.env_class = "ContinuousRobotEnv"]

NoisyContinuousProfile ==
    [NoisyProfile EXCEPT !.env_class = "ContinuousRobotEnv"]

Profiles == {BaseProfile, GoalProfile, CurriculumProfile}
ContinuousProfiles == {ContinuousProfile, NoisyContinuousProfile}
PlacementProfiles == {SmallArenaProfile, CrowdedProfile}
SensorProfiles == {OneRayProfile, SingleRayProfile, FixedAngleProfile}
PairProfiles == {NoisyProfile, NoisyCurriculumProfile}

(***************************************************************************)
(* The seedable generator an instance owns (gymnasium's self.np_random).   *)
(* A generator is a state in 0 .. RngModulus - 1; each draw reads the      *)
(* state and advances it.  A generator that was never seeded is created    *)
(* from operating-system entropy at its first use.                         *)
(***************************************************************************)
RngModulus == 3
RngStates == 0 .. (RngModulus - 1)
Unseeded == -1
Seeds == {1}

default_rng(seed) == seed % RngModulus
rng_next(state) == (state + 1) % RngModulus

\* Generator.uniform(low, high) over integers: low + (high - low) * u
uniform(state, low, high) == low + ((high - low) * state) \div RngModulus
\* Generator.uniform(0.0, 360.0), on the 12-degree grid of the headings
uniform_heading(state) == 12 * ((30 * state) \div RngModulus)
\* Generator.integers(0, n)
integers(state, n) == state % n
\* Generator.normal(0.0, std): one of -std, 0, +std
normal(state, std) == ((state % 3) - 1) * std

(***************************************************************************)
(* Construction: RobotEnv.__init__, SimulationWorld.__init__ and           *)
(* Robot.__init__.                                                         *)
(***************************************************************************)
n_actions == IF profile_config.reverse_enabled THEN 4 ELSE 3
Actions == 0 .. (n_actions - 1)

new_env(p, entropy) ==
    [ current_step |-> 0,
      episode_count |-> 0,
      last_reward |-> 0,
      last_collision |-> FALSE,
      consecutive_collisions |-> 0,
      last_x |-> 0,
      last_y |-> 0,
      last_goal_dist |-> 0,
      heading_history |-> << >>,
      visited_cells |-> {},
      stagnation_best_dist |-> Inf,
      stagnation_steps |-> 0,
      np_random |-> Unseeded,
      entropy |-> entropy,
      \* world.robot
      robot_x |-> Milli(p.width) \div 2,
      robot_y |-> Milli(p.height) \div 2,
      robot_vx |-> 0,
      robot_vy |-> 0,
      angle_degrees |-> 0,
      speed |-> p.speed,
      turn_rate_degrees |-> p.turn_rate_degrees,
      \* world
      goal_x |-> Milli(p.goal.x),
      goal_y |-> Milli(p.goal.y),
      obstacles |-> p.obstacles,
      obstacle_shapes |-> p.obstacles,
      space_shapes |-> p.obstacles ]

(***************************************************************************)
(* World.step: the physics tick and the collision query.                   *)
(***************************************************************************)
lo_x == Milli(profile_config.wall_margin + profile_config.radius)
hi_x == Milli(profile_config.width - profile_config.wall_margin
                                   - profile_config.radius)
lo_y == lo_x
hi_y == Milli(profile_config.height - profile_config.wall_margin
                                    - profile_config.radius)

Clamp(v, lo, hi) == Min(Max(v, lo), hi)

\* squared distance from (x, y) to the closest point of rectangle o
closest_sq(o, x, y) ==
    Sq(x - Clamp(x, Milli(o.x), Milli(o.x + o.width)))
      + Sq(y - Clamp(y, Milli(o.y), Milli(o.y + o.height)))

in_obstacle(e, x, y) ==
    \E i \in 1 .. Len(e.space_shapes) :
        closest_sq(e.space_shapes[i], x, y) < Sq(Milli(profile_config.radius))

outside_walls(x, y) == x < lo_x \/ x > hi_x \/ y < lo_y \/ y > hi_y

touches_wall(x, y) == x = lo_x \/ x = hi_x \/ y = lo_y \/ y = hi_y

\* the body after the tick: it stays where it was when an obstacle stops
\* it; damping 0.75 per second slows it every tick
space_settle(e, cx, cy, stopped, hit) ==
    [ env |-> [e EXCEPT !.robot_x = IF stopped THEN e.robot_x ELSE cx,
                        !.robot_y = IF stopped THEN e.robot_y ELSE cy,
                        !.robot_vx = (e.robot_vx * 99) \div 100,
                        !.robot_vy = (e.robot_vy * 99) \div 100],
      hit |-> hit ]

\* the body moved to (nx, ny) unless a wall holds it at (cx, cy)
space_move(e, nx, ny, cx, cy) ==
    space_settle(e, cx, cy, in_obstacle(e, cx, cy),
                 outside_walls(nx, ny) \/ in_obstacle(e, cx, cy))

\* the body moves by velocity * dt
space_advance(e, nx, ny) ==
    space_move(e, nx, ny, Clamp(nx, lo_x, hi_x), Clamp(ny, lo_y, hi_y))

\* Space.step(dt)
space_step(e) ==
    space_advance(e, e.robot_x + e.robot_vx \div StepsPerSecond,
                     e.robot_y + e.robot_vy \div StepsPerSecond)

\* what shape_query may report for the body s after the tick
shape_query(s) ==
    IF s.hit THEN {TRUE}
    ELSE IF touches_wall(s.env.robot_x, s.env.robot_y) THEN {TRUE, FALSE}
    ELSE {FALSE}

\* what shape_query may report after the tick: contact is certain when the
\* body was stopped, possible when it rests against a wall
ContactOutcomes(e) == shape_query(space_step(e))

\* World.step(): returns the collision flag
World_step(e, contact) ==
    [ env |-> space_step(e).env, collided |-> contact ]

(***************************************************************************)
(* reset().  A Python call binds its keyword arguments to the              *)
(* parameters of f before the body runs; a keyword that f does not declare *)
(* raises TypeError and the body never runs.                               *)
(***************************************************************************)
\* self.np_random: the instance's generator, created on first use
np_random(e) == IF e.np_random = Unseeded THEN e.entropy ELSE e.np_random
\* the generator after one draw
drawn(e) == [e EXCEPT !.np_random = rng_next(np_random(e))]

\* a faulty variant of Env.reset that never seeds the generator
Env_reset_unseeded(e, seed) == e

\* gymnasium.Env.reset(seed=seed)
Env_reset(e, seed) ==
    IF seed = NoSeed THEN e ELSE [e EXCEPT !.np_random = default_rng(seed)]

\* def reset(self, x: float, y: float) -> None
Robot_reset_params == {"x", "y"}

Robot_reset(e, kwargs) ==
    IF DOMAIN kwargs \subseteq Robot_reset_params
    THEN [ raised |-> "none",
           env |-> [e EXCEPT !.robot_x = kwargs.x,
                             !.robot_y = kwargs.y,
                             !.robot_vx = 0,
                             !.robot_vy = 0,
                             !.angle_degrees = 0] ]
    ELSE [ raised |-> "TypeError", env |-> e ]

\* World.reset(angle_degrees):
\*   self.robot.reset(x=width / 2, y=height / 2, angle_degrees=angle_degrees)
World_reset(e, angle_degrees) ==
    Robot_reset(e, [ x |-> Milli(profile_config.width) \div 2,
                     y |-> Milli(profile_config.height) \div 2,
                     angle_degrees |-> angle_degrees ])

\* the coarse cell of a position: int(np.clip((x / width) * gs, 0, gs - 1))
cell_of(x, y) ==
    << Clamp((x * visit_grid_size) \div Milli(profile_config.width),
             0, visit_grid_size - 1),
       Clamp((y * visit_grid_size) \div Milli(profile_config.height),
             0, visit_grid_size - 1) >>

goal_dist(e) ==
    IF profile_config.has_goal
    THEN sqrt(Sq(e.goal_x - e.robot_x) + Sq(e.goal_y - e.robot_y))
    ELSE 0

SpawnAttempts == 32            \* for _ in range(32)
GoalAttempts == 64             \* for _ in range(64)

\* margin = wall_margin + radius + 4
spawn_margin == profile_config.wall_margin + profile_config.radius + 4

RECURSIVE random_spawn_loop(_, _)

\* one attempt of _random_spawn at (x, y); e has made both draws and n
\* attempts are still to make
spawn_attempt(e, x, y, n) ==
    IF \E i \in 1 .. Len(e.obstacles) :
           closest_sq(e.obstacles[i], x, y)
               <= Sq(Milli(profile_config.radius + 2))
    THEN random_spawn_loop(e, n - 1)
    ELSE [e EXCEPT !.robot_x = x, !.robot_y = y,
                   !.robot_vx = 0, !.robot_vy = 0]

\* RobotEnv._random_spawn: the attempts still to make are n
random_spawn_loop(e, n) ==
    IF n = 0 THEN e
    ELSE spawn_attempt(
           drawn(drawn(e)),
           uniform(np_random(e), Milli(spawn_margin),
                   Milli(profile_config.width - spawn_margin)),
           uniform(np_random(drawn(e)), Milli(spawn_margin),
                   Milli(profile_config.height - spawn_margin)),
           n)

random_spawn(e) == random_spawn_loop(e, SpawnAttempts)

\* clearance = goal_radius + radius + 30; margin = wall_margin + goal_radius
\* + 10
goal_clearance == profile_config.goal.radius + profile_config.radius + 30
goal_margin == profile_config.wall_margin + profile_config.goal.radius + 10

RECURSIVE random_goal_loop(_, _)

\* one attempt of _random_goal at (gx, gy); e has made both draws and n
\* attempts are still to make
goal_attempt(e, gx, gy, n) ==
    IF /\ ~ \E i \in 1 .. Len(e.obstacles) :
              /\ Milli(e.obstacles[i].x - profile_config.goal.radius) <= gx
              /\ gx <= Milli(e.obstacles[i].x + e.obstacles[i].width
                               + profile_config.goal.radius)
              /\ Milli(e.obstacles[i].y - profile_config.goal.radius) <= gy
              /\ gy <= Milli(e.obstacles[i].y + e.obstacles[i].height
                               + profile_config.goal.radius)
       /\ Sq(gx - e.robot_x) + Sq(gy - e.robot_y) >= Sq(Milli(goal_clearance))
    THEN [e EXCEPT !.goal_x = gx, !.goal_y = gy]
    ELSE random_goal_loop(e, n - 1)

\* RobotEnv._random_goal: the attempts still to make are n; the fallback is
\* the far corner
random_goal_loop(e, n) ==
    IF n = 0
    THEN [e EXCEPT !.goal_x = Milli(profile_config.width - goal_margin),
                   !.goal_y = Milli(profile_config.height - goal_margin)]
    ELSE goal_attempt(
           drawn(drawn(e)),
           uniform(np_random(e), Milli(goal_margin),
                   Milli(profile_config.width - goal_margin)),
           uniform(np_random(drawn(e)), Milli(goal_margin),
                   Milli(profile_config.height - goal_margin)),
           n)

random_goal(e) == random_goal_loop(e, GoalAttempts)

(***************************************************************************)
(* Observation: cast_rays over the field of view, the heading as sin/cos,  *)
(* and the goal distance and relative bearing.  The rays see the boundary  *)
(* walls.                                                                  *)
(***************************************************************************)
Headings == { 12 * k : k \in 0 .. 29 }

\* np.arctan2(dy, dx) in degrees, on the 12-degree grid
arctan2(dy, dx) ==
    CHOOSE a \in Headings :
        \A b \in Headings :
            \/ cos(a) * dx + sin(a) * dy > cos(b) * dx + sin(b) * dy
            \/ /\ cos(a) * dx + sin(a) * dy = cos(b) * dx + sin(b) * dy
               /\ a <= b

\* hit.alpha in thousandths for a ray that meets a wall after t milli-pixels,
\* or 1000 when nothing is hit within ray_length
hit_alpha(t) ==
    IF t > Milli(profile_config.ray_length) THEN 1000
    ELSE Max(0, Min(1000, (t * 1000) \div Milli(profile_config.ray_length)))

\* the travel along a ray of direction cosine c (in thousandths) to a wall
\* at distance gap_hi ahead or gap_lo behind on that axis
wall_travel(c, gap_hi, gap_lo) ==
    IF c > 0 THEN (gap_hi * 1000) \div c
    ELSE IF c < 0 THEN (gap_lo * 1000) \div (-c)
    ELSE Milli(profile_config.ray_length) + 1

\* space.segment_query_first(origin, end) against the boundary walls
segment_query_first(e, angle) ==
    hit_alpha(Min(
        wall_travel(cos(angle),
            Milli(profile_config.width - profile_config.wall_margin)
                - e.robot_x,
            e.robot_x - Milli(profile_config.wall_margin)),
        wall_travel(sin(angle),
            Milli(profile_config.height - profile_config.wall_margin)
                - e.robot_y,
            e.robot_y - Milli(profile_config.wall_margin))))

\* sensors.cast_rays
cast_rays(e, ray_count) ==
    IF ray_count < 2
    THEN [ raised |-> "ValueError", distances |-> << >> ]
    ELSE [ raised |-> "none",
           distances |->
             [ i \in 1 .. ray_count |->
                 segment_query_first(
                     e, e.angle_degrees - profile_config.ray_fov_degrees \div 2
                          + ((i - 1) * profile_config.ray_fov_degrees)
                                \div (ray_count - 1)) ] ]

\* sensors.cast_rays_at_angles: no check of the number of angles
cast_rays_at_angles(e, angles_relative_degrees) ==
    [ raised |-> "none",
      distances |->
        [ i \in 1 .. Len(angles_relative_degrees) |->
            segment_query_first(
                e, e.angle_degrees + angles_relative_degrees[i]) ] ]

\* self.ray_count = len(self.sensor_angles) when the profile fixes the
\* sensor angles, else max(ray_count, int(sensor_cfg["ray_count"]))
env_ray_count ==
    IF profile_config.sensor_angles # << >>
    THEN Len(profile_config.sensor_angles)
    ELSE Max(profile_config.arg_ray_count, profile_config.ray_count)

\* the length of the Box that __init__ declares as observation_space:
\* ray_count + 2 + extra
observation_space ==
    env_ray_count + 2 + (IF profile_config.has_goal THEN 3 ELSE 0)

\* the rays of _get_observation and get_state: lines 267-283, 684-701
sensor_rays(e) ==
    IF profile_config.sensor_angles # << >>
    THEN cast_rays_at_angles(e, profile_config.sensor_angles)
    ELSE cast_rays(e, env_ray_count)

\* a faulty variant that adds the noise and does not clip
noisy_distances_unclipped(e, distances) ==
    IF profile_config.sensor_noise_std > 0
    THEN [ i \in 1 .. Len(distances) |->
             distances[i]
               + normal((np_random(e) + i - 1) % RngModulus,
                        profile_config.sensor_noise_std) ]
    ELSE distances

\* the distances with sensor noise added and clipped to [0, 1]
noisy_distances(e, distances) ==
    IF profile_config.sensor_noise_std > 0
    THEN [ i \in 1 .. Len(distances) |->
             Clamp(distances[i]
                     + normal((np_random(e) + i - 1) % RngModulus,
                              profile_config.sensor_noise_std),
                   0, 1000) ]
    ELSE distances

\* the generator after the noise vector of size n was drawn
drawn_noise(e, n) ==
    IF profile_config.sensor_noise_std > 0
    THEN [e EXCEPT !.np_random = (np_random(e) + n) % RngModulus]
    ELSE e

\* max_dist = (width ** 2 + height ** 2) ** 0.5
max_dist ==
    sqrt(Sq(Milli(profile_config.width)) + Sq(Milli(profile_config.height)))

\* [dist_norm, sin(rel_angle), cos(rel_angle)]
goal_features(e, rel_angle) ==
    << Clamp((goal_dist(e) * 1000) \div max_dist, 0, 1000),
       sin(rel_angle), cos(rel_angle) >>

\* the observation vector built from the ray distances
observation_vector(e, distances) ==
    IF profile_config.has_goal
    THEN distances \o << sin(e.angle_degrees), cos(e.angle_degrees) >>
           \o goal_features(e, arctan2(e.goal_y - e.robot_y,
                                       e.goal_x - e.robot_x)
                                 - e.angle_degrees + 360)
    ELSE distances \o << sin(e.angle_degrees), cos(e.angle_degrees) >>

\* the observation once the rays are cast
observe(e, rays) ==
    [ raised |-> rays.raised,
      env |-> drawn_noise(e, Len(rays.distances)),
      observation |->
          observation_vector(e, noisy_distances(e, rays.distances)) ]

\* RobotEnv._get_observation
get_observation(e) == observe(e, sensor_rays(e))

(***************************************************************************)
(* What a call returns: (observation, reward, terminated, truncated, info) *)
(* for step(), (observation, info) for reset(), or the exception raised.   *)
(* terms names the reward terms the step added.                            *)
(***************************************************************************)
\* an instance that no LiveEnvManager owns
NoManager == [ lock |-> "none" ]

\* an instance that no batch evaluation runs on
NoBatch == [ caller |-> "none" ]

\* a process that holds no TrainingManager
NoTrainer == [ state_lock |-> "none" ]

NoCall ==
    [ call |-> "none", raised |-> "none", arg |-> 0,
      observation |-> << >>, reward |-> 0, terms |-> {},
      terminated |-> FALSE, truncated |-> FALSE,
      collision |-> FALSE, goal_reached |-> FALSE, random_heading |-> 0 ]

\* the episode memory as RobotEnv.reset leaves it: lines 343-367
RobotEnv_reset_memory(e) ==
    [e EXCEPT !.last_reward = 0,
              !.last_collision = FALSE,
              !.consecutive_collisions = 0,
              !.last_x = e.robot_x,
              !.last_y = e.robot_y,
              !.heading_history = << e.angle_degrees >>,
              !.visited_cells = { cell_of(e.robot_x, e.robot_y) },
              !.last_goal_dist = goal_dist(e),
              !.stagnation_best_dist = goal_dist(e),
              !.stagnation_steps = 0]

\* the episode memory as CurriculumRobotEnv.reset leaves it: lines 1318-1335
CurriculumRobotEnv_reset_memory(e) ==
    [e EXCEPT !.last_reward = 0,
              !.last_collision = FALSE,
              !.consecutive_collisions = 0,
              !.last_x = e.robot_x,
              !.last_y = e.robot_y,
              !.last_goal_dist = goal_dist(e),
              !.stagnation_best_dist = goal_dist(e),
              !.stagnation_steps = 0,
              !.heading_history = << >>]

\* speed / turn scale of the episode: two draws
scale_draws(e) ==
    [drawn(drawn(e)) EXCEPT
       !.speed =
          (profile_config.speed
             * uniform(np_random(e), profile_config.speed_scale_min,
                       profile_config.speed_scale_max)) \div 1000,
       !.turn_rate_degrees =
          (profile_config.turn_rate_degrees
             * uniform(np_random(drawn(e)), profile_config.turn_scale_min,
                       profile_config.turn_scale_max)) \div 1000]

\* the spawn logic of RobotEnv.reset: randomize > fixed > centre
resolve_spawn(e) ==
    IF profile_config.randomize_spawn THEN random_spawn(e)
    ELSE IF profile_config.has_fixed_spawn
    THEN [e EXCEPT !.robot_x = Milli(profile_config.spawn_x),
                   !.robot_y = Milli(profile_config.spawn_y),
                   !.robot_vx = 0, !.robot_vy = 0]
    ELSE IF \E i \in 1 .. Len(e.obstacles) :
                closest_sq(e.obstacles[i], e.robot_x, e.robot_y)
                    <= Sq(Milli(profile_config.radius + 4))
    THEN random_spawn(e)
    ELSE e

\* the goal of the episode: RobotEnv.reset lines 341-342
resolve_goal(e) ==
    IF profile_config.randomize_goal /\ profile_config.has_goal
    THEN random_goal(e) ELSE e

\* a call that returns the observation o
returns(o, call, arg, random_heading) ==
    [ env |-> o.env,
      ret |-> [NoCall EXCEPT !.call = call, !.arg = arg,
                             !.raised = o.raised,
                             !.observation = o.observation,
                             !.random_heading = random_heading] ]

returned(e, call, arg, random_heading) ==
    returns(get_observation(e), call, arg, random_heading)

\* a call that raises
raised(e, call, arg, exception, random_heading) ==
    [ env |-> e,
      ret |-> [NoCall EXCEPT !.call = call, !.arg = arg,
                             !.raised = exception,
                             !.random_heading = random_heading] ]

\* RobotEnv.reset after World.reset returned w: lines 320-368
RobotEnv_reset_finish(w, seed, random_heading) ==
    IF w.raised # "none"
    THEN raised(w.env, "reset", seed, w.raised, random_heading)
    ELSE returned(
           RobotEnv_reset_memory(
               resolve_goal(scale_draws(resolve_spawn(w.env)))),
           "reset", seed, random_heading)

\* RobotEnv.reset from the heading draw on: lines 317-318
RobotEnv_reset_heading(e, seed, random_heading) ==
    RobotEnv_reset_finish(World_reset(drawn(e), random_heading),
                          seed, random_heading)

\* RobotEnv.reset once the generator is seeded: lines 312-313
RobotEnv_reset_seeded(e, seed) ==
    RobotEnv_reset_heading(
        [e EXCEPT !.current_step = 0, !.episode_count = @ + 1],
        seed, uniform_heading(np_random(e)))

\* RobotEnv.reset
RobotEnv_reset(e, seed) == RobotEnv_reset_seeded(Env_reset(e, seed), seed)

\* CurriculumRobotEnv.__init__: the pool of layouts
layout_pool ==
    IF Len(profile_config.layouts) > 0 THEN profile_config.layouts
    ELSE << profile_config.obstacles >>

\* the shapes of the space that are not obstacle shapes of e
other_shapes(e) ==
    SelectSeq(e.space_shapes,
              LAMBDA shape :
                  \A i \in 1 .. Len(e.obstacle_shapes) :
                      e.obstacle_shapes[i] # shape)

\* _swap_layout without the removal of the old shapes from the space
swap_layout_stale(e, obstacles) ==
    [e EXCEPT !.space_shapes = e.space_shapes \o obstacles,
              !.obstacle_shapes = obstacles,
              !.obstacles = obstacles]

\* _swap_layout up to self.world.obstacles.clear(): lines 1272-1280
clear_obstacles(e) ==
    [e EXCEPT !.space_shapes = other_shapes(e),
              !.obstacle_shapes = << >>,
              !.obstacles = << >>]

\* World._create_obstacles for the obstacle definitions defs
create_obstacles(e, defs) ==
    [e EXCEPT !.space_shapes = @ \o defs,
              !.obstacle_shapes = @ \o defs,
              !.obstacles = @ \o defs]

\* CurriculumRobotEnv._swap_layout
swap_layout(e, obstacles) == create_obstacles(clear_obstacles(e), obstacles)

\* the goal of the episode: CurriculumRobotEnv.reset lines 1315-1316
curriculum_goal(e) ==
    IF profile_config.has_goal THEN random_goal(e) ELSE e

\* CurriculumRobotEnv.reset after World.reset returned w: lines 1305-1337
CurriculumRobotEnv_reset_finish(w, seed, random_heading) ==
    IF w.raised # "none"
    THEN raised(w.env, "reset", seed, w.raised, random_heading)
    ELSE returned(
           CurriculumRobotEnv_reset_memory(
               curriculum_goal(scale_draws(random_spawn(w.env)))),
           "reset", seed, random_heading)

\* CurriculumRobotEnv.reset from the heading draw on: lines 1302-1303
CurriculumRobotEnv_reset_heading(e, seed, random_heading) ==
    CurriculumRobotEnv_reset_finish(World_reset(drawn(e), random_heading),
                                    seed, random_heading)

\* CurriculumRobotEnv.reset once the layout is swapped
CurriculumRobotEnv_reset_swapped(e, seed) ==
    CurriculumRobotEnv_reset_heading(e, seed, uniform_heading(np_random(e)))

\* the layout that reset(seed=seed) called on e draws: line 1298
drawn_layout(e, seed) ==
    layout_pool[integers(np_random(Env_reset(e, seed)), Len(layout_pool)) + 1]

\* CurriculumRobotEnv.reset once the generator is seeded: lines 1294-1299
CurriculumRobotEnv_reset_seeded(e, seed) ==
    CurriculumRobotEnv_reset_swapped(
        swap_layout(
            [drawn(e) EXCEPT !.current_step = 0, !.episode_count = @ + 1],
            layout_pool[integers(np_random(e), Len(layout_pool)) + 1]),
        seed)

\* CurriculumRobotEnv.reset
CurriculumRobotEnv_reset(e, seed) ==
    CurriculumRobotEnv_reset_seeded(Env_reset(e, seed), seed)

reset(e, seed) ==
    IF profile_config.env_class = "CurriculumRobotEnv"
    THEN CurriculumRobotEnv_reset(e, seed)
    ELSE RobotEnv_reset(e, seed)

(***************************************************************************)
(* step(action).                                                           *)
(***************************************************************************)
\* Robot.move_forward, with _apply_forward_velocity's speed_scale in tenths
move_forward(e, tenths) ==
    [e EXCEPT !.robot_vx = (e.speed * cos(e.angle_degrees) * tenths) \div 10,
              !.robot_vy = (e.speed * sin(e.angle_degrees) * tenths) \div 10]

\* Robot.rotate_left / rotate_right by the given share (percent) of the
\* turn rate
rotate(e, sign, percent) ==
    [e EXCEPT !.angle_degrees =
        (e.angle_degrees + sign * ((e.turn_rate_degrees * percent) \div 100))
            % 360]

\* a faulty variant of the stop that leaves the velocity as it is
coast(e) == e

\* self.world.robot.body.velocity = (0.0, 0.0)
stop(e) == [e EXCEPT !.robot_vx = 0, !.robot_vy = 0]

\* the velocity scaled to the given percentage
slowed(e, percent) ==
    [e EXCEPT !.robot_vx = (@ * percent) \div 100,
              !.robot_vy = (@ * percent) \div 100]

\* reverse at 60 % of the forward speed
reverse(e) ==
    [e EXCEPT !.robot_vx = -((cos(e.angle_degrees) * e.speed * 6) \div 10),
              !.robot_vy = -((sin(e.angle_degrees) * e.speed * 6) \div 10)]

\* the kinematic model of the action: step() lines 373-416
apply_action(e, action) ==
    IF profile_config.flat_ground_model = "ackermann"
    THEN CASE action = 0 -> move_forward(e, 10)
           [] action = 1 -> move_forward(rotate(e, -1, 70), 9)
           [] action = 2 -> move_forward(rotate(e, 1, 70), 9)
           [] OTHER -> e
    ELSE IF profile_config.flat_ground_model = "rover"
    THEN CASE action = 0 -> move_forward(e, 10)
           [] action = 1 -> slowed(move_forward(rotate(e, -1, 85), 10), 75)
           [] action = 2 -> slowed(move_forward(rotate(e, 1, 85), 10), 75)
           [] OTHER -> e
    ELSE CASE action = 0 -> move_forward(e, 10)
           [] action = 1 -> stop(rotate(e, -1, 100))
           [] action = 2 -> stop(rotate(e, 1, 100))
           [] action = 3 /\ profile_config.reverse_enabled -> reverse(e)
           [] OTHER -> e

\* heading drift: step() lines 418-421
drift_noise(e) ==
    IF profile_config.heading_drift_std > 0
    THEN [drawn(e) EXCEPT !.angle_degrees =
            (@ + normal(np_random(e), profile_config.heading_drift_std))
                % 360]
    ELSE e

\* turn noise: step() lines 422-425
turn_noise(e, action) ==
    IF profile_config.turn_noise_std > 0 /\ action \in {1, 2}
    THEN [drawn(e) EXCEPT !.angle_degrees =
            (@ + normal(np_random(e), profile_config.turn_noise_std)) % 360]
    ELSE e

\* speed noise: step() lines 426-432
speed_noise(e, action) ==
    IF profile_config.speed_noise_std > 0 /\ action \in {0, 1, 2}
    THEN [drawn(e) EXCEPT
            !.robot_vx =
               (@ * (1000 + normal(np_random(e),
                                   profile_config.speed_noise_std)))
                   \div 1000,
            !.robot_vy =
               (@ * (1000 + normal(np_random(e),
                                   profile_config.speed_noise_std)))
                   \div 1000]
    ELSE e

\* noise injection: step() lines 418-432
inject_noise(e, action) ==
    speed_noise(turn_noise(drift_noise(e), action), action)

\* the instance as step() hands it to the physics tick
before_physics(e, action) ==
    inject_noise(apply_action([e EXCEPT !.current_step = @ + 1], action),
                 action)

\* deque.append on a deque of maxlen 20
deque_append(h, x) ==
    IF Len(h) >= HeadingHistoryMaxLen THEN Tail(h) \o << x >>
    ELSE Append(h, x)

\* the sum of the absolute wrapped heading changes over the history
RECURSIVE total_turn(_)
total_turn(h) ==
    IF Len(h) < 2 THEN 0
    ELSE Abs(((h[2] - h[1] + 180) % 360) - 180) + total_turn(Tail(h))

\* a faulty variant of check_goal_reached that forgets the robot's radius
check_goal_reached_centre(e) ==
    IF ~profile_config.has_goal THEN FALSE
    ELSE Sq(e.robot_x - e.goal_x) + Sq(e.robot_y - e.goal_y)
            <= Sq(Milli(profile_config.goal.radius))

\* World.check_goal_reached
check_goal_reached(e) ==
    IF ~profile_config.has_goal THEN FALSE
    ELSE Sq(e.robot_x - e.goal_x) + Sq(e.robot_y - e.goal_y)
            <= Sq(Milli(profile_config.goal.radius + profile_config.radius))

\* whether this step adds the spin penalty: step() lines 601-612
spin_detected(history, pos_change_sq) ==
    /\ Len(history) >= SpinMinSamples
    /\ total_turn(history) > SpinTurnThreshold
    /\ pos_change_sq < Sq(Milli(SpinPosChange))

\* 2 consecutive wall hits = terminated
is_terminated(e) == e.consecutive_collisions >= TerminateCollisions

\* faulty variants of the truncation flag: one that ignores the goal, one
\* that is a step late
is_truncated_by_steps(e, goal_reached) ==
    e.current_step >= profile_config.max_steps

is_truncated_late(e, goal_reached) ==
    e.current_step > profile_config.max_steps \/ goal_reached

\* a faulty variant of the truncation flag that forgets the step limit
is_truncated_by_goal(e, goal_reached) == goal_reached

\* the episode is cut at the step limit or at the goal
is_truncated(e, goal_reached) ==
    e.current_step >= profile_config.max_steps \/ goal_reached

\* a faulty variant of the completion test that ignores termination
completion_due_always(e, terminated) ==
    e.current_step >= profile_config.max_steps

\* whether the completion bonus is added: step() line 642
completion_due(e, terminated) ==
    e.current_step >= profile_config.max_steps /\ ~terminated

\* the goal-approach term for a change delta of the goal distance
approach_reward(delta) ==
    IF ~profile_config.has_goal THEN 0
    ELSE IF delta > 0 THEN delta * 2
    ELSE (delta * 12) \div 10

\* the urgency term close to the goal: step() lines 572-573
urgency_reward(curr_dist) ==
    IF profile_config.has_goal /\ curr_dist < Milli(80)
    THEN ((Milli(80) - curr_dist) * 3) \div 1000 ELSE 0

\* the free step once distance, cell, history and spin test are known
free_step_memory(e, curr_dist, cell, history, spin) ==
    [ env |-> [e EXCEPT !.consecutive_collisions = 0,
                        !.last_goal_dist =
                            IF profile_config.has_goal THEN curr_dist ELSE @,
                        !.visited_cells = @ \cup {cell},
                        !.heading_history = history,
                        !.last_x = e.robot_x,
                        !.last_y = e.robot_y],
      reward |-> StepSurvivalReward
                   + approach_reward(e.last_goal_dist - curr_dist)
                   + urgency_reward(curr_dist)
                   + (IF cell \notin e.visited_cells THEN ExplorationReward
                      ELSE 0)
                   - (IF spin THEN SpinPenalty ELSE 0),
      terms |-> {"survival"}
                  \cup (IF cell \notin e.visited_cells THEN {"exploration"}
                        ELSE {})
                  \cup (IF spin THEN {"spin"} ELSE {}) ]

\* the free step once the heading is appended to the history
free_step_history(e, history) ==
    free_step_memory(
        e, goal_dist(e), cell_of(e.robot_x, e.robot_y), history,
        spin_detected(history,
                      Sq(e.robot_x - e.last_x) + Sq(e.robot_y - e.last_y)))

\* the branch of step() for a step without collision: lines 446-622
free_step(e) ==
    free_step_history(e, deque_append(e.heading_history, e.angle_degrees))

\* a faulty variant of the collision branch that does not count the hit
collision_step_uncounted(e) ==
    [ env |-> e,
      reward |-> CollisionReward,
      terms |-> {"collision"} ]

\* the branch of step() for a collision step: lines 441-445
collision_step(e) ==
    [ env |-> [e EXCEPT !.consecutive_collisions = @ + 1],
      reward |-> CollisionReward,
      terms |-> {"collision"} ]

\* what step() returns: lines 630-654
step_return(b, o, action, collided, goal_reached, terminated, completion) ==
    [ env |-> [b.env EXCEPT
                 !.last_reward =
                     b.reward + (IF goal_reached THEN GoalReward ELSE 0)
                       + (IF completion THEN CompletionReward ELSE 0),
                 !.last_collision = collided],
      ret |-> [NoCall EXCEPT
                 !.call = "step", !.arg = action,
                 !.observation = o.observation,
                 !.reward =
                     b.reward + (IF goal_reached THEN GoalReward ELSE 0)
                       + (IF completion THEN CompletionReward ELSE 0),
                 !.terms = b.terms
                     \cup (IF goal_reached THEN {"goal"} ELSE {})
                     \cup (IF completion THEN {"completion"} ELSE {}),
                 !.terminated = terminated,
                 !.truncated = is_truncated(b.env, goal_reached),
                 !.collision = collided,
                 !.goal_reached = goal_reached] ]

\* step() from the termination test on: lines 632-643
step_flags(b, o, action, collided, goal_reached, terminated) ==
    step_return(b, o, action, collided, goal_reached, terminated,
                completion_due(b.env, terminated))

\* step() from the goal check on: lines 624-627
step_goal(b, o, action, collided) ==
    step_flags(b, o, action, collided,
               check_goal_reached(b.env), is_terminated(b.env))

\* step() once the observation o is taken: lines 441-622
step_reward(o, action, collided) ==
    IF o.raised # "none"
    THEN raised(o.env, "step", action, o.raised, 0)
    ELSE step_goal(IF collided THEN collision_step(o.env)
                   ELSE free_step(o.env),
                   o, action, collided)

\* step() after the physics tick w: lines 438-439
step_observe(w, action) ==
    step_reward(get_observation(w.env), action, w.collided)

\* RobotEnv.step
step(e, action, contact) ==
    step_observe(World_step(before_physics(e, action), contact), action)

(***************************************************************************)
(* ContinuousRobotEnv: actions are (throttle, turn) in percent of full     *)
(* scale; no episode memory; one collision ends the episode.               *)
(***************************************************************************)
ContinuousCollisionReward == -50000  \* reward = -50.0
DangerDistance == 500                \* min_dist < 0.5
ClearDistance == 700                 \* min_dist > 0.7
ClearanceBonus == 20                 \* reward += 0.02

\* the actions a caller passes: full throttle ahead, ahead turning right,
\* ahead turning left, full reverse, and a throttle beyond the range
ContinuousActions ==
    << << 100, 0 >>, << 100, 100 >>, << 100, -100 >>, << -100, 0 >>,
       << 250, 0 >> >>

\* self.ray_count = max(ray_count, int(sensor_cfg["ray_count"]))
continuous_ray_count ==
    Max(profile_config.arg_ray_count, profile_config.ray_count)

\* the length of the Box that ContinuousRobotEnv declares
continuous_observation_space ==
    continuous_ray_count + 2 + (IF profile_config.has_goal THEN 3 ELSE 0)

\* the observation vector: the goal bearing is absolute
continuous_observation_vector(e, distances) ==
    IF profile_config.has_goal
    THEN distances \o << sin(e.angle_degrees), cos(e.angle_degrees) >>
           \o goal_features(e, arctan2(e.goal_y - e.robot_y,
                                       e.goal_x - e.robot_x))
    ELSE distances \o << sin(e.angle_degrees), cos(e.angle_degrees) >>

\* the observation once the rays are cast
continuous_observe(e, rays) ==
    [ raised |-> rays.raised,
      env |-> drawn_noise(e, Len(rays.distances)),
      observation |->
          continuous_observation_vector(
              e, noisy_distances(e, rays.distances)) ]

\* ContinuousRobotEnv._get_observation
continuous_get_observation(e) ==
    continuous_observe(e, cast_rays(e, continuous_ray_count))

\* ContinuousRobotEnv.reset after World.reset returned w: lines 996-1021
ContinuousRobotEnv_reset_finish(w, seed, random_heading) ==
    IF w.raised # "none"
    THEN raised(w.env, "reset", seed, w.raised, random_heading)
    ELSE returns(
           continuous_get_observation(
               [scale_draws(resolve_spawn(w.env)) EXCEPT
                   !.last_reward = 0,
                   !.last_collision = FALSE,
                   !.last_x = scale_draws(resolve_spawn(w.env)).robot_x,
                   !.last_y = scale_draws(resolve_spawn(w.env)).robot_y]),
           "reset", seed, random_heading)

\* ContinuousRobotEnv.reset from the heading draw on: lines 993-994
ContinuousRobotEnv_reset_heading(e, seed, random_heading) ==
    ContinuousRobotEnv_reset_finish(World_reset(drawn(e), random_heading),
                                    seed, random_heading)

\* ContinuousRobotEnv.reset once the generator is seeded: lines 989-990
ContinuousRobotEnv_reset_seeded(e, seed) ==
    ContinuousRobotEnv_reset_heading(
        [e EXCEPT !.current_step = 0, !.episode_count = @ + 1],
        seed, uniform_heading(np_random(e)))

\* ContinuousRobotEnv.reset
ContinuousRobotEnv_reset(e, seed) ==
    ContinuousRobotEnv_reset_seeded(Env_reset(e, seed), seed)

\* float(np.clip(action[i], -1.0, 1.0)), in percent
clip_action(a) == Clamp(a, -100, 100)

\* turn_gain in percent and speed_gain in thousandths: lines 1029-1036
turn_gain ==
    IF profile_config.flat_ground_model = "ackermann" THEN 75
    ELSE IF profile_config.flat_ground_model = "rover" THEN 90
    ELSE 100

speed_gain(turn) ==
    IF profile_config.flat_ground_model = "ackermann" THEN 950
    ELSE IF profile_config.flat_ground_model = "rover"
    THEN (850 * (400 - Abs(turn))) \div 400
    ELSE 1000

\* turn noise added to turn_delta: lines 1039-1040
continuous_turn_noise(e, turn_delta) ==
    IF profile_config.turn_noise_std > 0
    THEN [ env |-> drawn(e),
           turn_delta |-> turn_delta
               + normal(np_random(e), profile_config.turn_noise_std) ]
    ELSE [ env |-> e, turn_delta |-> turn_delta ]

\* heading drift added to turn_delta: lines 1041-1042
continuous_drift(t) ==
    IF profile_config.heading_drift_std > 0
    THEN [ env |-> drawn(t.env),
           turn_delta |-> t.turn_delta
               + normal(np_random(t.env), profile_config.heading_drift_std) ]
    ELSE t

\* angle_degrees = (angle_degrees + turn_delta) % 360.0
continuous_heading(t) ==
    [t.env EXCEPT !.angle_degrees = (@ + t.turn_delta) % 360]

\* body.velocity = (speed * cos(heading), speed * sin(heading)), the speed
\* in thousandths of a pixel per second
continuous_velocity(e, speed) ==
    [e EXCEPT !.robot_vx = (speed * cos(e.angle_degrees)) \div 1000,
              !.robot_vy = (speed * sin(e.angle_degrees)) \div 1000]

\* speed = config.speed * throttle * speed_gain, with its noise:
\* lines 1045-1049
continuous_drive(e, speed) ==
    IF profile_config.speed_noise_std > 0
    THEN continuous_velocity(
           drawn(e),
           (speed * (1000 + normal(np_random(e),
                                   profile_config.speed_noise_std)))
               \div 1000)
    ELSE continuous_velocity(e, speed)

\* the instance as step() hands it to the physics tick, for the clipped
\* throttle and turn
continuous_control(e, throttle, turn) ==
    continuous_drive(
        continuous_heading(
            continuous_drift(
                continuous_turn_noise(
                    e, (turn * e.turn_rate_degrees * turn_gain) \div 10000))),
        (e.speed * throttle * speed_gain(turn)) \div 100)

continuous_before_physics(e, action) ==
    continuous_control([e EXCEPT !.current_step = @ + 1],
                       clip_action(ContinuousActions[action][1]),
                       clip_action(ContinuousActions[action][2]))

\* float(np.min(ray_distances))
min_of(distances) ==
    CHOOSE m \in { distances[i] : i \in 1 .. Len(distances) } :
        \A i \in 1 .. Len(distances) : m <= distances[i]

\* the reward of a step without collision: lines 1063-1084
continuous_free_reward(displacement, min_dist) ==
    (IF min_dist < DangerDistance THEN -10
     ELSE displacement \div 50 - 10)
      - (IF min_dist < DangerDistance
         THEN (DangerDistance - min_dist) * 4 ELSE 0)
      + (IF min_dist > ClearDistance THEN ClearanceBonus ELSE 0)

\* a faulty variant of the termination flag that needs two hits in a row
continuous_terminated_second(e, collided) == collided /\ e.last_collision

\* terminated = collided
continuous_terminated(e, collided) == collided

\* what step() returns: lines 1086-1102
continuous_step_return(e, o, action, collided, goal_reached, reward) ==
    [ env |-> [o.env EXCEPT
                 !.last_reward =
                     reward + (IF goal_reached THEN GoalReward ELSE 0),
                 !.last_collision = collided],
      ret |-> [NoCall EXCEPT
                 !.call = "step", !.arg = action,
                 !.observation = o.observation,
                 !.reward =
                     reward + (IF goal_reached THEN GoalReward ELSE 0),
                 !.terms = (IF collided THEN {"collision"} ELSE {"motion"})
                     \cup (IF goal_reached THEN {"goal"} ELSE {}),
                 !.terminated = continuous_terminated(e, collided),
                 !.truncated = is_truncated(o.env, goal_reached),
                 !.collision = collided,
                 !.goal_reached = goal_reached] ]

\* step() once the observation o is taken; b is the instance before the
\* physics tick: lines 1058-1084
continuous_step_reward(e, b, o, action, collided) ==
    IF o.raised # "none"
    THEN raised(o.env, "step", action, o.raised, 0)
    ELSE continuous_step_return(
           e, o, action, collided, check_goal_reached(o.env),
           IF collided THEN ContinuousCollisionReward
           ELSE continuous_free_reward(
                  sqrt(Sq(o.env.robot_x - b.robot_x)
                         + Sq(o.env.robot_y - b.robot_y)),
                  min_of(SubSeq(o.observation, 1, continuous_ray_count))))

\* step() after the physics tick w: lines 1055-1056
continuous_step_observe(e, b, w, action) ==
    continuous_step_reward(e, b, continuous_get_observation(w.env),
                           action, w.collided)

\* step() once the controls are applied: b
continuous_step_physics(e, b, action, contact) ==
    continuous_step_observe(e, b, World_step(b, contact), action)

\* ContinuousRobotEnv.step
ContinuousRobotEnv_step(e, action, contact) ==
    continuous_step_physics(e, continuous_before_physics(e, action),
                            action, contact)

(***************************************************************************)
(* The state machine: one instance driven by a caller that may call        *)
(* reset() and step() in any order.                                        *)
(***************************************************************************)
NewEpisode ==
    [ steps |-> 0,            \* step() calls since the last reset() call
      goal_bonuses |-> 0,     \* how many of them added +100
      completions |-> 0,      \* how many of them added +12
      finished |-> FALSE,     \* one of them returned terminated or truncated
      late_goal |-> FALSE,    \* +100 was added after such a step
      turns |-> 0,            \* they are all turn actions that left the
                              \* position unchanged: their number
      spins |-> 0,            \* how many of those added the spin penalty
      position_history |-> << >>,   \* where the robot stood when each
                              \* sample of the heading history was taken
      cells |-> {} ]          \* the grid cells the robot has been in: where
                              \* the first step began and where each ended

\* the step r.ret was a turn that left the position unchanged and so were
\* all steps of the episode before it
still_turning(ep, before, r) ==
    /\ r.ret.arg \in {1, 2}
    /\ r.env.robot_x = before.robot_x
    /\ r.env.robot_y = before.robot_y
    /\ ep.turns = ep.steps

\* the bookkeeping after one more step of the episode
episode_after(ep, before, r) ==
    [ steps |-> ep.steps + 1,
      goal_bonuses |-> ep.goal_bonuses
                         + (IF "goal" \in r.ret.terms THEN 1 ELSE 0),
      completions |-> ep.completions
                        + (IF "completion" \in r.ret.terms THEN 1 ELSE 0),
      finished |-> ep.finished \/ r.ret.terminated \/ r.ret.truncated,
      late_goal |-> ep.late_goal \/ (ep.finished /\ "goal" \in r.ret.terms),
      turns |-> IF still_turning(ep, before, r) THEN ep.turns + 1
                ELSE ep.turns,
      spins |-> IF "spin" \in r.ret.terms /\ still_turning(ep, before, r)
                THEN ep.spins + 1
                ELSE ep.spins,
      position_history |->
          IF "survival" \in r.ret.terms
          THEN deque_append(ep.position_history,
                            << r.env.robot_x, r.env.robot_y >>)
          ELSE ep.position_history,
      cells |-> ep.cells \cup { cell_of(before.robot_x, before.robot_y),
                                cell_of(r.env.robot_x, r.env.robot_y) } ]

Init ==
    /\ profile_config \in Profiles
    /\ \E entropy \in RngStates : env = new_env(profile_config, entropy)
    /\ ret = NoCall
    /\ calls = 0
    /\ episode = NewEpisode
    /\ twin = env
    /\ twin_ret = NoCall
    /\ visited = {}
    /\ live = NoManager
    /\ batch = NoBatch
    /\ trainer = NoTrainer

\* the call on env returned or raised r
Called(r) ==
    /\ env' = r.env
    /\ ret' = r.ret
    /\ calls' = calls + 1
    /\ UNCHANGED <<profile_config, visited, live,
                   batch, trainer>>

\* the same call on twin returned or raised r
TwinCalled(r) ==
    /\ twin' = r.env
    /\ twin_ret' = r.ret

\* env.reset(seed=seed)
DoReset(seed) ==
    /\ Called(reset(env, seed))
    /\ episode' = NewEpisode

\* env.step(action) has returned or raised r
Stepped(r) ==
    /\ Called(r)
    /\ episode' = episode_after(episode, env, r)

\* env.step(action)
DoStep(action) ==
    \E contact \in ContactOutcomes(before_physics(env, action)) :
        Stepped(step(env, action, contact))

Reset(seed) ==
    /\ calls < MaxCalls
    /\ env.episode_count < MaxEpisodes
    /\ DoReset(seed)
    /\ UNCHANGED <<twin, twin_ret>>

Step(action) ==
    /\ calls < MaxCalls
    /\ DoStep(action)
    /\ UNCHANGED <<twin, twin_ret>>

Next ==
    \/ \E seed \in Seeds \cup {NoSeed} : Reset(seed)
    \/ \E action \in Actions : Step(action)

Spec == Init /\ [][Next]_vars

(***************************************************************************)
(* The same caller on an instance whose profile configures fewer than two  *)
(* rays.                                                                   *)
(***************************************************************************)
\* RobotEnv.__init__: it reads the sensor configuration and checks nothing
RobotEnv_init(p, entropy) ==
    [ raised |-> "none", env |-> new_env(p, entropy) ]

SensorInit ==
    /\ profile_config \in SensorProfiles
    /\ \E entropy \in RngStates :
          env = RobotEnv_init(profile_config, entropy).env
    /\ ret = NoCall
    /\ calls = 0
    /\ episode = NewEpisode
    /\ twin = env
    /\ twin_ret = NoCall
    /\ visited = {}
    /\ live = NoManager
    /\ batch = NoBatch
    /\ trainer = NoTrainer

SensorSpec == SensorInit /\ [][Next]_vars

(***************************************************************************)
(* RobotEnv.get_state and the VisitedGridWrapper around an instance: its   *)
(* own grid of marked cells, the bonus of a step and the observation with  *)
(* the flattened grid appended.                                            *)
(***************************************************************************)
WrapperGridSize == 6           \* grid_size: int = 6
FirstVisitBonus == 20          \* return 0.02
RevisitPenalty == -3           \* return -0.003

\* self.grid_size = max(3, int(grid_size))
grid_size == Max(3, WrapperGridSize)

\* the length of the Box that the wrapper declares: the base Box and one
\* entry per cell
wrapper_observation_space == observation_space + grid_size * grid_size

\* the snapshot once the rays are cast: no noise is added to them
state_snapshot(e, rays) ==
    [ raised |-> rays.raised,
      x |-> e.robot_x, y |-> e.robot_y, angle |-> e.angle_degrees,
      collision |-> e.last_collision, reward |-> e.last_reward,
      episode_count |-> e.episode_count,
      rays |-> rays.distances, ray_count |-> env_ray_count,
      world_width |-> Milli(profile_config.width),
      world_height |-> Milli(profile_config.height),
      obstacles |-> e.obstacles,
      goal_x |-> e.goal_x, goal_y |-> e.goal_y ]

\* RobotEnv.get_state
get_state(e) == state_snapshot(e, sensor_rays(e))

\* VisitedGridWrapper._cell_for_position
cell_for_position(state) ==
    << Clamp((state.x * grid_size) \div state.world_width,
             0, grid_size - 1),
       Clamp((state.y * grid_size) \div state.world_height,
             0, grid_size - 1) >>

\* VisitedGridWrapper._mark_and_bonus on the grid v, for the cell of the
\* snapshot state
mark_and_bonus(v, state) ==
    IF cell_for_position(state) \notin v
    THEN [ visited |-> v \cup { cell_for_position(state) },
           bonus |-> FirstVisitBonus, term |-> "first_visit" ]
    ELSE [ visited |-> v, bonus |-> RevisitPenalty, term |-> "revisit" ]

\* self._visited.flatten(): row gy, column gx
flatten(v) ==
    [ k \in 1 .. grid_size * grid_size |->
        IF << (k - 1) % grid_size, (k - 1) \div grid_size >> \in v
        THEN 1000 ELSE 0 ]

\* VisitedGridWrapper._augment_obs
augment_obs(obs, v) == obs \o flatten(v)

\* what the wrapper returns once the cell is marked: m
wrapper_returns(r, m) ==
    [ env |-> r.env,
      ret |-> [r.ret EXCEPT !.observation = augment_obs(@, m.visited),
                            !.reward = @ + m.bonus,
                            !.terms = @ \cup { m.term }],
      visited |-> m.visited ]

\* what the wrapper does when the inner call or get_state raised
wrapper_raises(e, r, v, error) ==
    [ env |-> e, ret |-> [r EXCEPT !.raised = error], visited |-> v ]

\* VisitedGridWrapper.step once the inner step is made and the snapshot
\* for the cell is taken: lines 102-104
wrapper_step_marked(r, v, state) ==
    IF state.raised # "none"
    THEN wrapper_raises(r.env, r.ret, v, state.raised)
    ELSE wrapper_returns(r, mark_and_bonus(v, state))

\* VisitedGridWrapper.step once the inner step is made
wrapper_step_finish(r, v) ==
    IF r.ret.raised # "none"
    THEN wrapper_raises(r.env, r.ret, v, r.ret.raised)
    ELSE wrapper_step_marked(r, v, get_state(r.env))

\* VisitedGridWrapper.step
VisitedGridWrapper_step(e, v, action, contact) ==
    wrapper_step_finish(step(e, action, contact), v)

\* VisitedGridWrapper.reset once the inner reset returned and the grid is
\* cleared: lines 97-99; the bonus is dropped
wrapper_reset_marked(r, state) ==
    IF state.raised # "none"
    THEN wrapper_raises(r.env, r.ret, {}, state.raised)
    ELSE wrapper_returns(
           r, [mark_and_bonus({}, state) EXCEPT !.bonus = 0,
                                                !.term = "reset"])

\* VisitedGridWrapper.reset once the inner reset is made: when it raised
\* the grid is left as it was
wrapper_reset_finish(r, v) ==
    IF r.ret.raised # "none"
    THEN wrapper_raises(r.env, r.ret, v, r.ret.raised)
    ELSE wrapper_reset_marked(r, get_state(r.env))

\* VisitedGridWrapper.reset
VisitedGridWrapper_reset(e, v, seed) ==
    wrapper_reset_finish(reset(e, seed), v)

WrappedProfiles == {BaseProfile, GoalProfile}

\* VisitedGridWrapper(RobotEnv(profile=...))
WrappedInit ==
    /\ profile_config \in WrappedProfiles
    /\ \E entropy \in RngStates : env = new_env(profile_config, entropy)
    /\ ret = NoCall
    /\ calls = 0
    /\ episode = NewEpisode
    /\ twin = env
    /\ twin_ret = NoCall
    /\ visited = {}
    /\ live = NoManager
    /\ batch = NoBatch
    /\ trainer = NoTrainer

\* the call on the wrapper returned or raised w
WrapperCalled(w) ==
    /\ calls < MaxCalls
    /\ env' = w.env
    /\ ret' = w.ret
    /\ visited' = w.visited
    /\ calls' = calls + 1
    /\ UNCHANGED <<profile_config, twin, twin_ret, live,
                   batch, trainer>>

\* wrapper.reset(seed=seed)
WrappedReset(seed) ==
    /\ env.episode_count < MaxEpisodes
    /\ WrapperCalled(VisitedGridWrapper_reset(env, visited, seed))
    /\ episode' = NewEpisode

\* wrapper.step(action)
WrappedStep(action) ==
    \E contact \in ContactOutcomes(before_physics(env, action)) :
        /\ WrapperCalled(
               VisitedGridWrapper_step(env, visited, action, contact))
        /\ episode' = [episode EXCEPT !.steps = @ + 1]

WrappedNext ==
    \/ \E seed \in Seeds \cup {NoSeed} : WrappedReset(seed)
    \/ \E action \in Actions : WrappedStep(action)

WrappedSpec == WrappedInit /\ [][WrappedNext]_vars

(***************************************************************************)
(* A ContinuousRobotEnv driven by a caller that may call reset() and       *)
(* step() in any order.                                                    *)
(***************************************************************************)
ContinuousInit ==
    /\ profile_config \in ContinuousProfiles
    /\ \E entropy \in RngStates : env = new_env(profile_config, entropy)
    /\ ret = NoCall
    /\ calls = 0
    /\ episode = NewEpisode
    /\ twin = env
    /\ twin_ret = NoCall
    /\ visited = {}
    /\ live = NoManager
    /\ batch = NoBatch
    /\ trainer = NoTrainer

\* env.reset(seed=seed)
ContinuousReset(seed) ==
    /\ calls < MaxCalls
    /\ env.episode_count < MaxEpisodes
    /\ Called(ContinuousRobotEnv_reset(env, seed))
    /\ episode' = NewEpisode
    /\ UNCHANGED <<twin, twin_ret>>

\* env.step(action)
ContinuousStep(action) ==
    /\ calls < MaxCalls
    /\ \E contact \in
           ContactOutcomes(continuous_before_physics(env, action)) :
          Called(ContinuousRobotEnv_step(env, action, contact))
    /\ episode' = [episode EXCEPT
                     !.steps = @ + 1,
                     !.finished = @ \/ ret'.terminated \/ ret'.truncated]
    /\ UNCHANGED <<twin, twin_ret>>

ContinuousNext ==
    \/ \E seed \in Seeds : ContinuousReset(seed)
    \/ \E action \in DOMAIN ContinuousActions : ContinuousStep(action)

ContinuousSpec == ContinuousInit /\ [][ContinuousNext]_vars

(***************************************************************************)
(* LiveEnvManager: the live-preview instance behind a threading.Lock.      *)
(* Every method runs its whole body inside "with self._lock".  A call is   *)
(* modelled in steps: the lock is acquired, the body runs in two parts,    *)
(* and the second part releases the lock and returns.  The dict that       *)
(* get_state builds holds copies of the scalars and the list of rays, and  *)
(* under "obstacles" the list object self.world.obstacles itself: what a   *)
(* caller reads there later is what that list holds then.                  *)
(***************************************************************************)
Threads == {"request", "stream"}
MaxLiveCalls == 3
\* the registered profiles by their key
LiveProfiles == << BaseProfile, CurriculumProfile >>
get_environment_profile(profile) == LiveProfiles[profile]
AutoCollisionReward == -5000   \* reward = -5.0
AutoStepReward == 100          \* reward = 0.1

\* the methods a thread may call, with their arguments
LiveCalls ==
    { [ method |-> "reset", arg |-> 0 ],
      [ method |-> "auto_step", arg |-> 0 ],
      [ method |-> "state", arg |-> 0 ] }
      \cup { [ method |-> "step", arg |-> action ] : action \in 0 .. 2 }
      \cup { [ method |-> "switch_profile", arg |-> profile ] :
                 profile \in DOMAIN LiveProfiles }

NoSnapshot == [ taken |-> FALSE, world |-> 0, state |-> << >> ]

\* LiveEnvManager.__init__ up to the reset of the instance it built: the
\* lock is free, no thread is in a call, the world of the instance is the
\* first one built
new_manager(e) ==
    [ lock |-> "free",
      pc |-> [ t \in Threads |-> "idle" ],
      call |-> [ t \in Threads |->
                   [ method |-> "none", arg |-> 0 ] ],
      idx |-> [ t \in Threads |-> 0 ],
      returned |-> [ t \in Threads |-> NoSnapshot ],
      world |-> 1,
      obstacle_lists |-> << e.obstacles >> ]

\* the dict that the call of thread t returned, as it reads now
snapshot_view(t) ==
    [live.returned[t].state EXCEPT
        !.obstacles = live.obstacle_lists[live.returned[t].world]]

\* the manager after a part of a body left the instance as e
body_ran(m, e) ==
    [m EXCEPT !.obstacle_lists[m.world] = e.obstacles]

\* the end of "with self._lock" in thread t: the call raised, or returned
\* the snapshot state
lock_released(m, t, state) ==
    [m EXCEPT !.lock = "free",
              !.pc[t] = "idle",
              !.returned[t] =
                  IF state.raised # "none" THEN @
                  ELSE [ taken |-> TRUE, world |-> m.world,
                         state |-> state ]]

LiveInit ==
    /\ profile_config = BaseProfile
    /\ \E entropy \in RngStates :
          /\ env = reset(new_env(BaseProfile, entropy), NoSeed).env
          /\ ret = reset(new_env(BaseProfile, entropy), NoSeed).ret
    /\ calls = 0
    /\ episode = NewEpisode
    /\ twin = env
    /\ twin_ret = NoCall
    /\ visited = {}
    /\ live = new_manager(env)
    /\ batch = NoBatch
    /\ trainer = NoTrainer

\* thread t calls a method: "with self._lock" is entered
Acquire(t, call) ==
    /\ calls < MaxLiveCalls
    /\ live.pc[t] = "idle"
    /\ live.lock = "free"
    /\ live' = [live EXCEPT !.lock = t, !.pc[t] = call.method,
                            !.call[t] = call]
    /\ calls' = calls + 1
    /\ UNCHANGED <<profile_config, env, ret, episode, twin, twin_ret,
                   visited,
                   batch, trainer>>

\* switch_profile: self._profile = profile; self._env = _build_live_env(..)
SwitchBuild(t) ==
    /\ live.pc[t] = "switch_profile"
    /\ profile_config' = get_environment_profile(live.call[t].arg)
    /\ \E entropy \in RngStates :
          env' = new_env(profile_config', entropy)
    /\ live' = [live EXCEPT
                  !.pc[t] = "reset",
                  !.world = @ + 1,
                  !.obstacle_lists = Append(@, env'.obstacles)]
    /\ ret' = NoCall
    /\ episode' = NewEpisode
    /\ UNCHANGED <<calls, twin, twin_ret, visited,
                   batch, trainer>>

\* the instance in the middle of reset(): seeded, counted, and for a
\* CurriculumRobotEnv with the index drawn and the obstacle lists cleared
reset_begun(e) ==
    IF profile_config.env_class = "CurriculumRobotEnv"
    THEN clear_obstacles(
           [drawn(e) EXCEPT !.current_step = 0, !.episode_count = @ + 1])
    ELSE [e EXCEPT !.current_step = 0, !.episode_count = @ + 1]

\* the rest of reset() for the instance e left by reset_begun
reset_ended(e, idx) ==
    IF profile_config.env_class = "CurriculumRobotEnv"
    THEN CurriculumRobotEnv_reset_swapped(
           create_obstacles(e, layout_pool[idx + 1]), NoSeed)
    ELSE RobotEnv_reset_heading(e, NoSeed, uniform_heading(np_random(e)))

\* self._env.reset(), first part
ResetBegin(t) ==
    /\ live.pc[t] = "reset"
    /\ env' = reset_begun(Env_reset(env, NoSeed))
    /\ live' = [body_ran(live, env') EXCEPT
                  !.pc[t] = "resetting",
                  !.idx[t] = integers(np_random(env), Len(layout_pool))]
    /\ UNCHANGED <<profile_config, ret, calls, episode, twin, twin_ret,
                   visited,
                   batch, trainer>>

\* the method whose body ended with the call r on the instance
Returned(t, r) ==
    /\ env' = r.env
    /\ ret' = r.ret
    /\ live' = lock_released(
                   body_ran(live, r.env), t,
                   IF r.ret.raised # "none" THEN [ raised |-> r.ret.raised ]
                   ELSE get_state(r.env))
    /\ UNCHANGED <<profile_config, calls, twin, twin_ret, visited,
                   batch, trainer>>

\* self._env.reset(), second part, and return self._env.get_state()
ResetEnd(t) ==
    /\ live.pc[t] = "resetting"
    /\ Returned(t, reset_ended(env, live.idx[t]))
    /\ episode' = NewEpisode

\* self._env.step(action), up to the physics tick
StepBegin(t) ==
    /\ live.pc[t] = "step"
    /\ env' = before_physics(env, live.call[t].arg)
    /\ live' = [live EXCEPT !.pc[t] = "stepping"]
    /\ UNCHANGED <<profile_config, ret, calls, episode, twin, twin_ret,
                   visited,
                   batch, trainer>>

\* self._env.step(action) from the physics tick on, and return
\* self._env.get_state()
StepEnd(t) ==
    /\ live.pc[t] = "stepping"
    /\ \E contact \in ContactOutcomes(env) :
          Returned(t, step_observe(World_step(env, contact),
                                   live.call[t].arg))
    /\ episode' = [episode EXCEPT !.steps = @ + 1]

\* turn noise of step_auto: lines 659-662
auto_turn_noise(e) ==
    IF profile_config.turn_noise_std > 0
    THEN [drawn(e) EXCEPT !.angle_degrees =
            (@ + normal(np_random(e), profile_config.turn_noise_std)) % 360]
    ELSE e

\* step_auto up to the physics tick: lines 658-668
auto_before_physics(e) ==
    speed_noise(move_forward(auto_turn_noise(rotate(e, 1, 100)), 10), 0)

\* step_auto after the physics tick w: lines 670-677
auto_settled(w) ==
    IF w.collided
    THEN [Robot_reset(w.env,
                      [ x |-> Milli(profile_config.width) \div 2,
                        y |-> Milli(profile_config.height) \div 2 ]).env
            EXCEPT !.last_reward = AutoCollisionReward,
                   !.last_collision = TRUE]
    ELSE [w.env EXCEPT !.last_reward = AutoStepReward,
                       !.last_collision = FALSE]

\* what step_auto returns to the manager: get_state may raise
auto_returns(e, state) ==
    [ env |-> e,
      ret |-> [NoCall EXCEPT !.call = "step_auto",
                             !.raised = state.raised,
                             !.collision = e.last_collision,
                             !.reward = e.last_reward] ]

\* self._env.step_auto(), up to the physics tick
AutoBegin(t) ==
    /\ live.pc[t] = "auto_step"
    /\ env' = auto_before_physics(env)
    /\ live' = [live EXCEPT !.pc[t] = "auto_stepping"]
    /\ UNCHANGED <<profile_config, ret, calls, episode, twin, twin_ret,
                   visited,
                   batch, trainer>>

\* self._env.step_auto() from the physics tick on
AutoEnd(t) ==
    /\ live.pc[t] = "auto_stepping"
    /\ \E contact \in ContactOutcomes(env) :
          Returned(t, auto_returns(
                          auto_settled(World_step(env, contact)),
                          get_state(
                              auto_settled(World_step(env, contact)))))
    /\ UNCHANGED episode

\* state(): return self._env.get_state()
State(t) ==
    /\ live.pc[t] = "state"
    /\ live' = lock_released(live, t, get_state(env))
    /\ UNCHANGED <<profile_config, env, ret, calls, episode, twin,
                   twin_ret, visited,
                   batch, trainer>>

LiveNext ==
    \E t \in Threads :
        \/ \E call \in LiveCalls : Acquire(t, call)
        \/ SwitchBuild(t)
        \/ ResetBegin(t)
        \/ ResetEnd(t)
        \/ StepBegin(t)
        \/ StepEnd(t)
        \/ AutoBegin(t)
        \/ AutoEnd(t)
        \/ State(t)

LiveSpec == LiveInit /\ [][LiveNext]_vars

(***************************************************************************)
(* The placement functions applied on their own to an instance that is     *)
(* stepped around its arena.                                               *)
(***************************************************************************)
PlacementInit ==
    /\ profile_config \in PlacementProfiles
    /\ \E entropy \in RngStates : env = new_env(profile_config, entropy)
    /\ ret = NoCall
    /\ calls = 0
    /\ episode = NewEpisode
    /\ twin = env
    /\ twin_ret = NoCall
    /\ visited = {}
    /\ live = NoManager
    /\ batch = NoBatch
    /\ trainer = NoTrainer

\* the placement function named call has returned with the instance e
Placed(call, e) ==
    /\ calls < MaxCalls
    /\ env' = e
    /\ ret' = [NoCall EXCEPT !.call = call]
    /\ calls' = calls + 1
    /\ UNCHANGED <<profile_config, episode, twin, twin_ret, visited, live,
                   batch, trainer>>

\* env._random_spawn()
RandomSpawn == Placed("_random_spawn", random_spawn(env))

\* env._random_goal()
RandomGoal == Placed("_random_goal", random_goal(env))

PlacementNext ==
    \/ \E action \in Actions : Step(action)
    \/ RandomSpawn
    \/ RandomGoal

PlacementSpec == PlacementInit /\ [][PlacementNext]_vars

(***************************************************************************)
(* The same instance driven by a caller that resets it at most once, as    *)
(* its first call, and then only turns in place.                           *)
(***************************************************************************)
TurnActions == {1, 2}

FirstReset(seed) ==
    /\ calls = 0
    /\ DoReset(seed)
    /\ UNCHANGED <<twin, twin_ret>>

Turn(action) ==
    /\ episode.steps < MaxTurns
    /\ DoStep(action)
    /\ UNCHANGED <<twin, twin_ret>>

SpinNext ==
    \/ \E seed \in Seeds \cup {NoSeed} : FirstReset(seed)
    \/ \E action \in TurnActions : Turn(action)

SpinSpec == Init /\ [][SpinNext]_vars

(***************************************************************************)
(* Two instances built from the same profile, each with its own entropy,   *)
(* reset with the same seed and then given the same actions.  The physics  *)
(* engine is deterministic: both see the same contact outcome.             *)
(***************************************************************************)
PairInit ==
    /\ profile_config \in PairProfiles
    /\ \E entropy \in RngStates : env = new_env(profile_config, entropy)
    /\ \E entropy \in RngStates : twin = new_env(profile_config, entropy)
    /\ ret = NoCall
    /\ twin_ret = NoCall
    /\ visited = {}
    /\ live = NoManager
    /\ batch = NoBatch
    /\ trainer = NoTrainer
    /\ calls = 0
    /\ episode = NewEpisode

PairReset(seed) ==
    /\ calls < MaxCalls
    /\ env.episode_count < MaxEpisodes
    /\ DoReset(seed)
    /\ TwinCalled(reset(twin, seed))

PairStep(action) ==
    /\ calls < MaxCalls
    /\ env.episode_count > 0
    /\ DoStep(action)
    /\ TwinCalled(step(twin, action, ret'.collision))

PairNext ==
    \/ \E seed \in Seeds : PairReset(seed)
    \/ \E action \in Actions : PairStep(action)

PairSpec == PairInit /\ [][PairNext]_vars

(***************************************************************************)
(* Properties.                                                             *)
(***************************************************************************)
\* the robot ends the step within goal_radius + robot_radius of the goal
InGoalRange ==
    /\ profile_config.has_goal
    /\ Sq(env.robot_x - env.goal_x) + Sq(env.robot_y - env.goal_y)
         <= Sq(Milli(profile_config.goal.radius + profile_config.radius))

\* the episode memory as reset() is said to leave it
MemoryCleared ==
    /\ env.current_step = 0
    /\ env.consecutive_collisions = 0
    /\ Len(env.heading_history) <= 1
    /\ \A i \in 1 .. Len(env.heading_history) :
           env.heading_history[i] = env.angle_degrees
    /\ env.stagnation_steps = 0
    /\ env.stagnation_best_dist = goal_dist(env)
    /\ env.visited_cells = { cell_of(env.robot_x, env.robot_y) }

\* the state a raising call must leave alone
Untouched(a, b) ==
    /\ a.current_step = b.current_step
    /\ a.episode_count = b.episode_count
    /\ a.consecutive_collisions = b.consecutive_collisions
    /\ a.heading_history = b.heading_history
    /\ a.visited_cells = b.visited_cells
    /\ a.stagnation_best_dist = b.stagnation_best_dist
    /\ a.stagnation_steps = b.stagnation_steps
    /\ a.obstacles = b.obstacles
    /\ a.space_shapes = b.space_shapes
    /\ a.robot_x = b.robot_x /\ a.robot_y = b.robot_y
    /\ a.robot_vx = b.robot_vx /\ a.robot_vy = b.robot_vy
    /\ a.angle_degrees = b.angle_degrees

C2_GoalBonus ==
    /\ ret.call = "step" =>
         /\ ("goal" \in ret.terms) <=> InGoalRange
         /\ ("goal" \in ret.terms) => ret.truncated
    /\ episode.goal_bonuses > 1 => episode.late_goal

\* C2 witness: the step just made added the bonus, the first of its episode
C2_Witness ==
    /\ ret.call = "step" /\ "goal" \in ret.terms
    /\ episode.goal_bonuses = 1 /\ ~episode.late_goal

\* C2 as stated: between two reset() calls the +100 goal bonus is added
\* exactly once, on no other step.
C2_Original == episode.goal_bonuses <= 1

\* C3 (as amended): every step on which the goal is reached returns
\* truncated=True; it returns terminated=True exactly when it is at least
\* the second of consecutive collision steps, and terminated=False otherwise.
C3_GoalStepFlags ==
    (ret.call = "step" /\ ret.goal_reached) =>
        /\ ret.truncated
        /\ ret.terminated <=> (env.consecutive_collisions >= 2)

\* C3 witness: the goal is reached on a collision step that is not the
\* second in a row
C3_Witness ==
    /\ ret.call = "step" /\ ret.goal_reached /\ ret.collision
    /\ ret.truncated /\ ~ret.terminated

\* C3 as stated: every goal-reached step returns truncated=True and
\* terminated=False, whatever the collision history.
C3_Original ==
    (ret.call = "step" /\ ret.goal_reached) =>
        (ret.truncated /\ ~ret.terminated)

\* C4 as stated: after every reset() the step counter and the
\* consecutive-collision counter are 0, the heading history holds no sample
\* of the previous episode, the stagnation tracker is cleared and the
\* visited-cell set is exactly the start cell.
C4_Original == ret.call = "reset" => MemoryCleared

\* C5: the step that brings the step counter to max_steps returns
\* truncated=True, so no episode has max_steps steps without one of them
\* having returned terminated or truncated.
C5_EpisodeBounded ==
    /\ (ret.call = "step" /\ env.current_step >= profile_config.max_steps)
          => ret.truncated
    /\ episode.steps >= profile_config.max_steps => episode.finished

\* C5 witness: after a reset(), a step brought the counter to max_steps
\* with the goal not reached, and returned truncated=True
C5_Witness ==
    /\ env.episode_count > 0
    /\ ret.call = "step" /\ env.current_step = profile_config.max_steps
    /\ ~ret.goal_reached /\ ret.truncated

\* C6 (as amended): the +12.0 bonus is added to a step's reward if and only
\* if the step leaves the step counter at max_steps or above and does not
\* return terminated=True; it is added on the step that brings the counter
\* to max_steps and again on every later such step made before reset().
C6_CompletionBonus ==
    ret.call = "step" =>
        (("completion" \in ret.terms)
            <=> (env.current_step >= profile_config.max_steps
                    /\ ~ret.terminated))

\* C6 witness: a step past max_steps added the bonus a second time
C6_Witness ==
    /\ ret.call = "step" /\ "completion" \in ret.terms
    /\ env.current_step > profile_config.max_steps
    /\ episode.completions = 2

\* C6 as stated: the bonus is added if and only if the step brings the
\* counter to max_steps and is not terminated, so at most once per episode.
C6_Original ==
    /\ ret.call = "step" =>
         (("completion" \in ret.terms)
             <=> (env.current_step = profile_config.max_steps
                     /\ ~ret.terminated))
    /\ episode.completions <= 1

\* C7 as stated: an episode that starts with reset() and then has 7 or more
\* consecutive turn actions that leave the position unchanged gets the
\* spin penalty on at least one of those steps.
C7_Original ==
    (env.episode_count > 0 /\ episode.turns >= 7) => episode.spins >= 1

C9_Original ==
    ret.call = "reset" =>
        (ret.raised = "none" /\ env.angle_degrees = ret.random_heading)

\* C10 as stated: a reset() or step() that raises leaves the step counter,
\* the episode counter, the episode memory, the obstacle set and the
\* robot's pose and velocity as they were before the call.
C10_Original ==
    [][ (calls' = calls + 1 /\ ret'.raised # "none")
            => Untouched(env', env) ]_vars

\* C11 as stated: constructing an environment whose sensor configuration
\* has ray_count < 2 raises, and an environment is never built that runs
\* with a ray count other than the configured one.
C11_Original ==
    /\ profile_config.ray_count < 2
          => RobotEnv_init(profile_config, env.entropy).raised # "none"
    /\ env_ray_count = profile_config.ray_count

\* C12 as stated: when spawn placement or goal placement returns, the robot
\* or the goal it placed does not overlap an obstacle, also when every one
\* of the 32 or 64 attempts failed and the default position was taken.
C12_Original ==
    /\ ret.call = "_random_spawn"
          => ~ in_obstacle(env, env.robot_x, env.robot_y)
    /\ ret.call = "_random_goal"
          => \A i \in 1 .. Len(env.obstacles) :
                 closest_sq(env.obstacles[i], env.goal_x, env.goal_y)
                     > Sq(Milli(profile_config.goal.radius))

\* C13: every CurriculumRobotEnv.reset() leaves the world's obstacle list,
\* its obstacle shapes and the obstacle shapes of the physics space equal to
\* the layout drawn in that reset, each obstacle once and none of the
\* previous layout; the swap is complete while robot and goal are not yet
\* placed: a reset() that ends in World.reset has swapped the layout and
\* left robot and goal where they were.
C13_LayoutSwapped ==
    [][ ( /\ profile_config.env_class = "CurriculumRobotEnv"
          /\ calls' = calls + 1
          /\ ret'.call = "reset" )
        => /\ env'.obstacles = drawn_layout(env, ret'.arg)
           /\ env'.obstacle_shapes = drawn_layout(env, ret'.arg)
           /\ env'.space_shapes = drawn_layout(env, ret'.arg)
           /\ ret'.raised # "none"
                 => /\ env'.robot_x = env.robot_x
                    /\ env'.robot_y = env.robot_y
                    /\ env'.goal_x = env.goal_x
                    /\ env'.goal_y = env.goal_y ]_vars

\* a CurriculumRobotEnv.reset() has replaced the layout of the profile by
\* the other layout of the pool
C13_Witness ==
    /\ profile_config.env_class = "CurriculumRobotEnv"
    /\ ret.call = "reset"
    /\ env.obstacles = LayoutB
    /\ env.space_shapes = LayoutB
    /\ env.episode_count = 2

\* C14 as stated: every wrapped reset() leaves exactly the starting cell
\* marked in the wrapper's grid, and a wrapped step() adds +0.02 and marks
\* the robot's cell when it was unmarked and adds -0.003 when it was marked.
C14_Original ==
    /\ ret.call = "reset"
          => visited = { cell_for_position(get_state(env)) }
    /\ "first_visit" \in ret.terms
          => cell_for_position(get_state(env)) \in visited
    /\ ret.call = "step" /\ ret.raised = "none"
          => ret.terms \cap {"first_visit", "revisit"} # {}

\* C15: every step() of the continuous environment returns terminated
\* equal to the collision flag of that step: a step that collides
\* terminates the episode, the first one included, and a step that does
\* not collide never returns terminated.
C15_SingleHitTermination ==
    (ret.call = "step" /\ ret.raised = "none")
        => ret.terminated = ret.collision

\* the third step of an instance, driven from the centre of the arena to
\* its wall, is its first collision and has terminated the episode
C15_Witness ==
    /\ profile_config.env_class = "ContinuousRobotEnv"
    /\ ret.call = "step"
    /\ calls = 3
    /\ episode.steps = 3
    /\ ret.collision
    /\ ret.terminated

declared_length ==
    IF profile_config.env_class = "ContinuousRobotEnv"
    THEN continuous_observation_space
    ELSE observation_space

\* C17 as stated: reset() and every step() return an observation, and its
\* length is the length that observation_space declares.
C17_Original ==
    ret.call \in {"reset", "step"}
        => /\ ret.raised = "none"
           /\ Len(ret.observation) = declared_length

\* C18: every sensor distance in the observation that a call returned and
\* every distance in the snapshot that get_state builds lies in [0, 1],
\* with and without sensor noise.
C18_DistancesInRange ==
    /\ \A i \in 1 .. Min(env_ray_count, Len(ret.observation)) :
          ret.observation[i] \in 0 .. 1000
    /\ \A i \in 1 .. Len(get_state(env).rays) :
          get_state(env).rays[i] \in 0 .. 1000

\* a step has returned a distance that the sensor measured just below 1,
\* that the noise pushed above 1, and that was clipped to 1
C18_Witness ==
    /\ ret.call = "step"
    /\ ret.raised = "none"
    /\ profile_config.sensor_noise_std > 0
    /\ \E i \in 1 .. env_ray_count :
          /\ get_state(env).rays[i] \in
                 (1001 - profile_config.sensor_noise_std) .. 999
          /\ ret.observation[i] = 1000

\* C19 as stated: a step() that reports a collision returns a strictly
\* negative reward.
C19_Original ==
    (ret.call = "step" /\ ret.raised = "none" /\ ret.collision)
        => ret.reward < 0

\* the profile runs the differential model with every noise source off
NoiseDisabled ==
    /\ profile_config.flat_ground_model = "differential"
    /\ profile_config.heading_drift_std = 0
    /\ profile_config.turn_noise_std = 0
    /\ profile_config.speed_noise_std = 0

\* C20: in the differential model with noise disabled a turn-left step
\* lowers the heading by exactly turn_rate_degrees modulo 360, a turn-right
\* step raises it by exactly turn_rate_degrees, the velocity is (0, 0)
\* after either, and a forward step leaves the heading unchanged.
C20_TurnKinematics ==
    [][ ( /\ NoiseDisabled
          /\ calls' = calls + 1
          /\ ret'.call = "step"
          /\ ret'.raised = "none" )
        => /\ ret'.arg = 1
                 => /\ env'.angle_degrees
                         = (env.angle_degrees - env.turn_rate_degrees) % 360
                    /\ env'.robot_vx = 0
                    /\ env'.robot_vy = 0
           /\ ret'.arg = 2
                 => /\ env'.angle_degrees
                         = (env.angle_degrees + env.turn_rate_degrees) % 360
                    /\ env'.robot_vx = 0
                    /\ env'.robot_vy = 0
           /\ ret'.arg = 0
                 => env'.angle_degrees = env.angle_degrees ]_vars

\* a robot that had driven forward has turned left from heading 0 to
\* heading 348 and stands still
C20_Witness ==
    /\ NoiseDisabled
    /\ ret.call = "step"
    /\ ret.arg = 1
    /\ env.angle_degrees = 348
    /\ env.robot_x > Milli(profile_config.width) \div 2
    /\ env.robot_vx = 0
    /\ env.robot_vy = 0

(***************************************************************************)
(* Batch evaluation of a trained model: the episode loop of the test-model *)
(* endpoint (backend/api/training.py, test_model) and of the automatic     *)
(* test (backend/rl/auto_test.py, _run_episodes).  The policy is a trained *)
(* network: model.predict may return any action.  The requests modelled    *)
(* leave payload.max_steps and payload.record_trajectory unset.            *)
(***************************************************************************)
MaxBatch == 3        \* episodes requested of one batch

\* the lists of a batch before its first episode
new_batch(caller, n) ==
    [ caller |-> caller,
      episodes |-> n,            \* payload.episodes / n
      index |-> 0,               \* iterations of the for loop begun
      at |-> "loop",             \* "loop", "returned" or "raised"
      closed |-> FALSE,          \* env.close() was called
      episode_rewards |-> << >>,
      episode_steps |-> << >>,
      episode_collisions |-> << >>,
      episode_success |-> << >>,
      episode_goal_reached |-> << >> ]

\* the way one pass through the episode body ends
episode_outcome(e, exception, total_reward, steps, info, collided, goal) ==
    [ env |-> e, raised |-> exception, total_reward |-> total_reward,
      steps |-> steps,
      collision |-> info.collision,        \* info of the last step
      goal_reached |-> info.goal_reached,
      truncated |-> info.truncated,
      collided |-> collided,               \* some step reported a collision
      goal |-> goal ]                      \* some step reported the goal

RECURSIVE episode_loop(_, _, _, _, _)
RECURSIVE episode_loop_after(_, _, _, _, _)

\* the while loop of one episode: every way it can end
episode_loop(e, total_reward, steps, collided, goal) ==
    UNION { UNION { episode_loop_after(step(e, action, contact),
                                       total_reward, steps, collided, goal)
                    : contact \in ContactOutcomes(before_physics(e, action)) }
            : action \in Actions }

\* the loop once env.step(action) has returned or raised r
episode_loop_after(r, total_reward, steps, collided, goal) ==
    IF r.ret.raised # "none"
    THEN { episode_outcome(r.env, r.ret.raised, total_reward, steps, r.ret,
                           collided, goal) }
    ELSE IF r.ret.terminated \/ r.ret.truncated
    THEN { episode_outcome(r.env, "none", total_reward + r.ret.reward,
                           steps + 1, r.ret,
                           collided \/ r.ret.collision,
                           goal \/ r.ret.goal_reached) }
    ELSE episode_loop(r.env, total_reward + r.ret.reward, steps + 1,
                      collided \/ r.ret.collision,
                      goal \/ r.ret.goal_reached)

\* one pass through the episode body once env.reset() has returned or
\* raised r
episode_body(r) ==
    IF r.ret.raised # "none"
    THEN { episode_outcome(r.env, r.ret.raised, 0, 0, r.ret, FALSE, FALSE) }
    ELSE episode_loop(r.env, 0, 0, FALSE, FALSE)

Flag(b) == IF b THEN 1 ELSE 0

\* test_model, one iteration of the for loop: the episode's entries, or
\* zeros from the except branch
test_model_episode(b, o) ==
    IF o.raised # "none"
    THEN [b EXCEPT !.index = @ + 1,
                   !.episode_rewards = Append(@, 0),
                   !.episode_steps = Append(@, 0),
                   !.episode_collisions = Append(@, 0),
                   !.episode_success = Append(@, 0),
                   !.episode_goal_reached = Append(@, 0)]
    ELSE [b EXCEPT !.index = @ + 1,
                   !.episode_goal_reached = Append(@, Flag(o.goal_reached)),
                   !.episode_rewards = Append(@, o.total_reward),
                   !.episode_steps = Append(@, o.steps),
                   !.episode_collisions = Append(@, Flag(o.collision)),
                   !.episode_success =
                       Append(@, Flag(o.truncated /\ ~o.collision))]

\* _run_episodes, one iteration of the for loop: it has no except branch,
\* an exception leaves through finally: env.close()
run_episodes_episode(b, o) ==
    IF o.raised # "none"
    THEN [b EXCEPT !.index = @ + 1, !.at = "raised", !.closed = TRUE]
    ELSE [b EXCEPT !.index = @ + 1,
                   !.episode_rewards = Append(@, o.total_reward),
                   !.episode_steps = Append(@, o.steps),
                   !.episode_collisions = Append(@, Flag(o.collided)),
                   !.episode_goal_reached = Append(@, Flag(o.goal))]

BatchInit ==
    /\ profile_config \in Profiles
    /\ \E entropy \in RngStates : env = new_env(profile_config, entropy)
    /\ ret = NoCall
    /\ calls = 0
    /\ episode = NewEpisode
    /\ twin = env
    /\ twin_ret = NoCall
    /\ visited = {}
    /\ live = NoManager
    /\ batch = NoBatch
    /\ trainer = NoTrainer

\* the handler has built env and its empty lists
BatchBegin(caller, n) ==
    /\ batch = NoBatch
    /\ batch' = new_batch(caller, n)
    /\ UNCHANGED <<profile_config, env, ret, calls, episode, twin, twin_ret,
                   visited, live, trainer>>

\* the episode body has ended as o and the handler continues as b
BatchEpisode(o, b) ==
    /\ env' = o.env
    /\ ret' = [NoCall EXCEPT !.call = "episode", !.raised = o.raised]
    /\ batch' = b
    /\ UNCHANGED <<profile_config, calls, episode, twin, twin_ret, visited,
                   live, trainer>>

\* test_model: for episode_index in range(payload.episodes)
TestModelEpisode ==
    /\ batch.caller = "test_model"
    /\ batch.at = "loop"
    /\ batch.index < batch.episodes
    /\ \E o \in episode_body(reset(env, NoSeed)) :
          BatchEpisode(o, test_model_episode(batch, o))

\* _run_episodes: for _ in range(n)
RunEpisodesEpisode ==
    /\ batch.caller = "_run_episodes"
    /\ batch.at = "loop"
    /\ batch.index < batch.episodes
    /\ \E o \in episode_body(reset(env, NoSeed)) :
          BatchEpisode(o, run_episodes_episode(batch, o))

\* the for loop is exhausted: env.close() and the aggregate is returned
BatchReturn ==
    /\ batch # NoBatch
    /\ batch.at = "loop"
    /\ batch.index = batch.episodes
    /\ batch' = [batch EXCEPT !.at = "returned", !.closed = TRUE]
    /\ UNCHANGED <<profile_config, env, ret, calls, episode, twin, twin_ret,
                   visited, live, trainer>>

BatchNext ==
    \/ \E n \in 0 .. MaxBatch : BatchBegin("test_model", n)
    \/ \E n \in 0 .. MaxBatch : BatchBegin("_run_episodes", n)
    \/ TestModelEpisode
    \/ RunEpisodesEpisode
    \/ BatchReturn

BatchSpec == BatchInit /\ [][BatchNext]_vars

\* C21: in every batch evaluation of N episodes an exception raised inside
\* one episode does not abort the batch: the batch never ends by raising,
\* every iteration begun has left one record in every list, and a batch
\* that has returned holds exactly N records.
C21_Original ==
    batch # NoBatch
        => /\ batch.at # "raised"
           /\ Len(batch.episode_rewards) = batch.index
           /\ Len(batch.episode_steps) = batch.index
           /\ Len(batch.episode_collisions) = batch.index
           /\ Len(batch.episode_goal_reached) = batch.index
           /\ batch.at = "returned"
                  => Len(batch.episode_rewards) = batch.episodes

(***************************************************************************)
(* The same instance driven by a caller that never resets it and only      *)
(* drives forward or turns left.                                           *)
(***************************************************************************)
MaxPatrol == 10      \* steps explored by the caller that drives and turns

PatrolActions == {0, 1}

Patrol(action) ==
    /\ episode.steps < MaxPatrol
    /\ DoStep(action)
    /\ UNCHANGED <<twin, twin_ret>>

\* the base profiles at twice the speed: one forward step moves the robot
\* 4 px, more than the 3 px of the spin test, as in the shipped presets
\* (100 to 210 px/s at 30 steps per second), and with a step limit of 6,
\* which leaves room for steps between the first end of an episode and
\* the limit
PatrolProfile == [BaseProfile EXCEPT !.speed = 120, !.max_steps = 6]

PatrolGoalProfile == [GoalProfile EXCEPT !.speed = 120, !.max_steps = 6]

PatrolProfiles == {PatrolProfile, PatrolGoalProfile}

\* without reset() and without noise the generator is never drawn from:
\* one entropy stands for all
PatrolInit ==
    /\ profile_config \in PatrolProfiles
    /\ env = new_env(profile_config, 0)
    /\ ret = NoCall
    /\ calls = 0
    /\ episode = NewEpisode
    /\ twin = env
    /\ twin_ret = NoCall
    /\ visited = {}
    /\ live = NoManager
    /\ batch = NoBatch
    /\ trainer = NoTrainer

PatrolNext == \E action \in PatrolActions : Patrol(action)

PatrolSpec == PatrolInit /\ [][PatrolNext]_vars

\* the squared net change of position over the window of the heading
\* history: from where its oldest sample was taken to where its newest was
window_change_sq(ep) ==
    LET n == Len(ep.position_history)
    IN  Sq(ep.position_history[n][1] - ep.position_history[1][1])
          + Sq(ep.position_history[n][2] - ep.position_history[1][2])

\* C22: a step without collision subtracts the spin penalty of 0.50 if and
\* only if the heading history holds at least 10 samples, the absolute
\* wrapped heading changes over the history add up to more than 80 degrees,
\* and the net change of position over that same window is under 3 units.
C22_Original ==
    ( /\ ret.call = "step"
      /\ ret.raised = "none"
      /\ ~ret.collision
      /\ Len(episode.position_history) = Len(env.heading_history) )
        => ( "spin" \in ret.terms
               <=> /\ Len(env.heading_history) >= SpinMinSamples
                   /\ total_turn(env.heading_history) > SpinTurnThreshold
                   /\ window_change_sq(episode) < Sq(Milli(SpinPosChange)) )

\* C23: the exploration bonus of +0.015 is awarded exactly on the steps
\* that end in a grid cell the robot has not been in earlier in the episode
\* (the cell it started the episode in included), so at most once per cell
\* per episode and never for the start cell; for the discrete and the
\* curriculum environment, in every episode that a reset() call began.
C23_Original ==
    [][ ( /\ env.episode_count >= 1
          /\ calls' = calls + 1
          /\ ret'.call = "step"
          /\ ret'.raised = "none" )
        => ( "exploration" \in ret'.terms
               <=> cell_of(env'.robot_x, env'.robot_y)
                      \notin episode.cells
                               \cup { cell_of(env.robot_x, env.robot_y) } )
      ]_vars

(***************************************************************************)
(* The spawn logic of reset() (gym_env.py lines 320-335) on profiles that  *)
(* define a fixed spawn, a randomized spawn, both or neither: as part of   *)
(* reset(), and applied on its own to an instance that is stepped around   *)
(* its arena.                                                              *)
(***************************************************************************)
FixedSpawnProfile ==
    [SmallArenaProfile EXCEPT !.has_fixed_spawn = TRUE,
                              !.spawn_x = 8, !.spawn_y = 8,
                              !.randomize_spawn = FALSE]

FixedRandomSpawnProfile ==
    [FixedSpawnProfile EXCEPT !.randomize_spawn = TRUE]

CentreSpawnProfile ==
    [SmallArenaProfile EXCEPT !.randomize_spawn = FALSE]

SpawnProfiles ==
    {FixedSpawnProfile, FixedRandomSpawnProfile, SmallArenaProfile,
     CentreSpawnProfile}

SpawnInit ==
    /\ profile_config \in SpawnProfiles
    /\ \E entropy \in RngStates : env = new_env(profile_config, entropy)
    /\ ret = NoCall
    /\ calls = 0
    /\ episode = NewEpisode
    /\ twin = env
    /\ twin_ret = NoCall
    /\ visited = {}
    /\ live = NoManager
    /\ batch = NoBatch
    /\ trainer = NoTrainer

\* lines 320-335 of reset() on their own
ResolveSpawn == Placed("resolve_spawn", resolve_spawn(env))

\* the caller drives the robot forward, resets it and runs the spawn logic
SpawnNext ==
    \/ \E seed \in Seeds \cup {NoSeed} : Reset(seed)
    \/ Step(0)
    \/ ResolveSpawn

SpawnSpec == SpawnInit /\ [][SpawnNext]_vars

\* the robot stands at the profile's fixed spawn
at_fixed_spawn(e) ==
    /\ e.robot_x = Milli(profile_config.spawn_x)
    /\ e.robot_y = Milli(profile_config.spawn_y)

\* the robot stands at the centre of the world
at_world_centre(e) ==
    /\ e.robot_x = Milli(profile_config.width) \div 2
    /\ e.robot_y = Milli(profile_config.height) \div 2

\* C24: reset() resolves the spawn position by priority: with a fixed spawn
\* defined the robot is placed there, also when randomize_spawn is enabled;
\* a randomized spawn is used only without a fixed spawn; with neither the
\* robot is at the world centre (or, when the centre overlaps an obstacle,
\* at a randomized spawn).
C24_Original ==
    ret.call \in {"reset", "resolve_spawn"}
        => /\ profile_config.has_fixed_spawn => at_fixed_spawn(env)
           /\ ( /\ ~profile_config.has_fixed_spawn
                /\ ~profile_config.randomize_spawn
                /\ ret.call = "reset" )
                  => at_world_centre(env)

\* the goal disc overlaps obstacle i of the world
goal_overlaps(e, i) ==
    closest_sq(e.obstacles[i], e.goal_x, e.goal_y)
        <= Sq(Milli(profile_config.goal.radius))

\* C25: after every reset() with randomize_goal enabled on a profile that
\* has a goal, the goal overlaps no obstacle and lies at least the minimum
\* clearance (goal_radius + robot_radius + 30, more than the reach of the
\* goal) from the robot, so the goal is not already reached before the
\* first step of the episode.
C25_Original ==
    ( /\ ret.call = "reset"
      /\ profile_config.randomize_goal
      /\ profile_config.has_goal )
        => /\ \A i \in 1 .. Len(env.obstacles) : ~goal_overlaps(env, i)
           /\ Sq(env.goal_x - env.robot_x) + Sq(env.goal_y - env.robot_y)
                 >= Sq(Milli(goal_clearance))
           /\ ~check_goal_reached(env)

\* C26 as stated: a finished episode stays finished until reset(): once a
\* step() has returned terminated or truncated, every later step() called
\* before the next reset() also returns terminated or truncated.
C26_Original ==
    [][ ( /\ episode.finished
          /\ calls' = calls + 1
          /\ ret'.call = "step"
          /\ ret'.raised = "none" )
        => (ret'.terminated \/ ret'.truncated) ]_vars

\* C26, amended: only the step limit persists.  Every step() made once the
\* step counter has reached max_steps returns truncated; terminated and the
\* goal's truncation are recomputed on every step: terminated exactly when
\* the step leaves the consecutive-collision counter at 2 or more, truncated
\* exactly when the counter of steps is at max_steps or more or the goal is
\* reached on that step.
C26_StepLimitPersists ==
    [][ ( /\ calls' = calls + 1
          /\ ret'.call = "step"
          /\ ret'.raised = "none" )
        => /\ env.current_step >= profile_config.max_steps => ret'.truncated
           /\ ret'.terminated
                 <=> env'.consecutive_collisions >= TerminateCollisions
           /\ ret'.truncated
                 <=> \/ env'.current_step >= profile_config.max_steps
                     \/ ret'.goal_reached ]_vars

\* the step made three steps after the one that reached the step limit is
\* a turn without collision, away from the goal, and has returned truncated
\* and not terminated
C26_Witness ==
    /\ ret.call = "step"
    /\ ret.arg = 1
    /\ ~ret.collision
    /\ ~ret.goal_reached
    /\ ret.truncated
    /\ ~ret.terminated
    /\ episode.finished
    /\ env.current_step = profile_config.max_steps + 3

(***************************************************************************)
(* TrainingManager (backend/rl/trainer.py).  Its coroutines run on one     *)
(* event loop: a coroutine is atomic up to its next await that has to      *)
(* wait.  _train_sync runs in a worker thread started by                   *)
(* asyncio.to_thread, which task.cancel() does not stop.  model.learn is   *)
(* the Stable-Baselines3 library: it calls _on_step once per timestep and  *)
(* _on_rollout_end after a rollout, returns when _on_step returns False or *)
(* total_timesteps is reached, and raises when the environment raises.     *)
(* A run id, a reward, a loss and an environment snapshot written by the   *)
(* thread of run r are all represented by r.                               *)
(***************************************************************************)
MaxRuns == 2         \* training runs created
MaxTrainSteps == 2   \* steps: the total_timesteps of a run

NoRun == 0           \* run_id: int | None = None

\* TrainingState(run_id=..., status=..., total_steps=...)
TrainingState(run_id, status, total_steps) ==
    [ run_id |-> run_id, status |-> status, total_steps |-> total_steps,
      completed_steps |-> 0, episode_count |-> 0, last_reward |-> 0,
      last_loss |-> 0, training_env_state |-> NoRun ]

NoTask == [ run |-> NoRun, status |-> "none" ]

\* a run without a worker thread, and the thread as to_thread starts it
NoThread == [ at |-> "none", num_timesteps |-> 0, last_loss |-> 0 ]
StartedThread == [ at |-> "learn", num_timesteps |-> 0, last_loss |-> 0 ]

\* TrainingManager.__init__, with the training_runs table of the database
\* and the worker threads
TrainingManager_init ==
    [ state |-> TrainingState(NoRun, "idle", 0),
      state_lock |-> "free",          \* or the coroutine that holds it
      task |-> NoTask,                \* self._task and whether it is done
      stop_event |-> FALSE,
      runs |-> << >>,                 \* status of training_runs row run_id
      threads |-> [r \in 1 .. MaxRuns |-> NoThread],
      run_id_to_cancel |-> NoRun,     \* local of cancel_training
      raised |-> "none" ]             \* what the last start_training raised

\* not self._task.done()
task_running(t) == t.task.status = "pending"

\* a faulty variant of start_training that does not look at the task
start_training_unchecked(t, steps) ==
    [t EXCEPT !.runs = Append(@, "running"),
              !.state = TrainingState(Len(t.runs) + 1, "running", steps),
              !.stop_event = FALSE,
              !.task = [run |-> Len(t.runs) + 1, status |-> "pending"],
              !.threads[Len(t.runs) + 1] = StartedThread,
              !.raised = "none"]

\* start_training, the block under the state lock: lines 297-344
start_training(t, steps) ==
    IF task_running(t)
    THEN [t EXCEPT !.raised = "RuntimeError"]
    ELSE [t EXCEPT !.runs = Append(@, "running"),
                   !.state = TrainingState(Len(t.runs) + 1, "running", steps),
                   !.stop_event = FALSE,
                   !.task = [run |-> Len(t.runs) + 1, status |-> "pending"],
                   !.threads[Len(t.runs) + 1] = StartedThread,
                   !.raised = "none"]

\* update_progress_threadsafe
update_progress_threadsafe(t, run_id, current_step, total_steps) ==
    IF t.state.run_id # run_id THEN t
    ELSE [t EXCEPT !.state.completed_steps = current_step,
                   !.state.total_steps = total_steps]

\* update_env_state_threadsafe
update_env_state_threadsafe(t, state) ==
    [t EXCEPT !.state.training_env_state = state]

\* update_episode_threadsafe
update_episode_threadsafe(t, reward, loss) ==
    [t EXCEPT !.state.episode_count = @ + 1,
              !.state.last_reward = reward,
              !.state.last_loss = loss]

\* update_loss_threadsafe
update_loss_threadsafe(t, loss) == [t EXCEPT !.state.last_loss = loss]

\* _on_step line 242: return not self.manager._stop_event.is_set()
on_step_return(t) == ~t.stop_event

\* learn() after the callback of run r returned: it goes on, or it returns
\* and _train_sync saves the model
learn_continues(t, r, current) ==
    [t EXCEPT !.threads[r].num_timesteps = current,
              !.threads[r].at =
                  IF on_step_return(t) /\ current < MaxTrainSteps
                  THEN "learn" ELSE "saving"]

\* _ProgressCallback._on_step of run r: lines 216-223, one episode ended
\* or none
on_step_infos(t, r, current, ended) ==
    learn_continues(
        IF ended THEN update_episode_threadsafe(t, r, t.threads[r].last_loss)
        ELSE t,
        r, current)

\* _ProgressCallback._on_step of run r: lines 201-212
on_step(t, r, current, ended) ==
    on_step_infos(
        update_env_state_threadsafe(
            update_progress_threadsafe(t, r, current, MaxTrainSteps), r),
        r, current, ended)

\* _ProgressCallback._on_rollout_end of run r
on_rollout_end(t, r) ==
    update_loss_threadsafe([t EXCEPT !.threads[r].last_loss = r], r)

\* _train_sync after learn() returned: lines 524-598
train_sync_return(t, r) ==
    [t EXCEPT !.runs[r] = "completed",
              !.threads[r].at = "returned"]

\* _run_training once the thread has returned or raised: lines 371-393
run_training_done(t) ==
    IF t.threads[t.task.run].at = "returned"
    THEN [t EXCEPT !.task.status = "done",
                   !.state.status = "completed",
                   !.state.completed_steps = MaxTrainSteps]
    ELSE [t EXCEPT !.task.status = "done",
                   !.runs[t.task.run] = "failed",
                   !.state.status = "failed"]

\* cancel_training up to await self._task: lines 705-711
cancel_training_begin(t) ==
    [t EXCEPT !.stop_event = TRUE,
              !.state_lock = "cancel_training",
              !.run_id_to_cancel = t.state.run_id,
              !.task.status = IF task_running(t) THEN "cancelled" ELSE @]

\* cancel_training from self._task = None on: lines 714-722
cancel_training_end(t) ==
    [t EXCEPT !.task = NoTask,
              !.state = TrainingState(NoRun, "idle", 0),
              !.state_lock = "free",
              !.run_id_to_cancel = NoRun,
              !.runs = IF t.run_id_to_cancel = NoRun THEN @
                       ELSE [@ EXCEPT ![t.run_id_to_cancel] = "cancelled"]]

TrainerInit ==
    /\ profile_config = BaseProfile
    /\ env = new_env(profile_config, 0)
    /\ ret = NoCall
    /\ calls = 0
    /\ episode = NewEpisode
    /\ twin = env
    /\ twin_ret = NoCall
    /\ visited = {}
    /\ live = NoManager
    /\ batch = NoBatch
    /\ trainer = TrainingManager_init

\* the manager or one of its threads has moved on to t
Trained(t) ==
    /\ trainer' = t
    /\ UNCHANGED <<profile_config, env, ret, calls, episode, twin, twin_ret,
                   visited, live, batch>>

StartTraining ==
    /\ trainer.state_lock = "free"
    /\ Len(trainer.runs) < MaxRuns \/ task_running(trainer)
    /\ Trained(start_training(trainer, MaxTrainSteps))

OnStep(r, ended) ==
    /\ trainer.threads[r].at = "learn"
    /\ Trained(on_step(trainer, r, trainer.threads[r].num_timesteps + 1,
                       ended))

\* a rollout has collected at least one step
OnRolloutEnd(r) ==
    /\ trainer.threads[r].at = "learn"
    /\ trainer.threads[r].num_timesteps >= 1
    /\ Trained(on_rollout_end(trainer, r))

\* learn() raises at its first env.reset(), before any callback: the
\* exception leaves _train_sync
LearnRaises(r) ==
    /\ trainer.threads[r].at = "learn"
    /\ trainer.threads[r].num_timesteps = 0
    /\ Trained([trainer EXCEPT !.threads[r].at = "raised"])

TrainSyncReturn(r) ==
    /\ trainer.threads[r].at = "saving"
    /\ Trained(train_sync_return(trainer, r))

RunTrainingDone ==
    /\ task_running(trainer)
    /\ trainer.state_lock = "free"
    /\ trainer.threads[trainer.task.run].at \in {"returned", "raised"}
    /\ Trained(run_training_done(trainer))

CancelBegin ==
    /\ trainer.state_lock = "free"
    /\ Trained(cancel_training_begin(trainer))

CancelEnd ==
    /\ trainer.state_lock = "cancel_training"
    /\ Trained(cancel_training_end(trainer))

TrainerNext ==
    \/ StartTraining
    \/ \E r \in 1 .. MaxRuns : \E ended \in BOOLEAN : OnStep(r, ended)
    \/ \E r \in 1 .. MaxRuns : OnRolloutEnd(r)
    \/ \E r \in 1 .. MaxRuns : LearnRaises(r)
    \/ \E r \in 1 .. MaxRuns : TrainSyncReturn(r)
    \/ RunTrainingDone
    \/ CancelBegin
    \/ CancelEnd

TrainerSpec == TrainerInit /\ [][TrainerNext]_vars

\* cancel_training has been called for run r: it has set the stop event
\* and read r as the run to cancel, or it has written the row of r
cancelled_run(t, r) ==
    /\ r <= Len(t.runs)
    /\ \/ t.runs[r] = "cancelled"
       \/ t.state_lock = "cancel_training" /\ t.run_id_to_cancel = r

\* the thread of run r has run one _on_step callback in this step
callback_step(r) ==
    /\ trainer.threads[r].at = "learn"
    /\ trainer'.threads[r].num_timesteps > trainer.threads[r].num_timesteps

C27_StopEventSeen ==
    [][\A r \in 1 .. MaxRuns :
        trainer.stop_event /\ callback_step(r)
            => trainer'.threads[r].at # "learn"]_vars

C28_OnlyTheThread ==
    [][\A r \in 1 .. Len(trainer.runs) :
        trainer.runs[r] = "cancelled" /\ trainer'.runs[r] # "cancelled"
            => /\ trainer.threads[r].at = "saving"
               /\ trainer'.threads[r].at = "returned"
               /\ trainer'.runs[r] = "completed"]_vars

\* the thread of run r has run a callback (_on_step or _on_rollout_end) in
\* this step
callback_of(r) ==
    /\ trainer.threads[r].at = "learn"
    /\ trainer'.threads[r] # trainer.threads[r]
    /\ trainer'.threads[r].at # "raised"

C29_ProgressGuarded ==
    [][\A r \in 1 .. MaxRuns :
        callback_of(r) /\ trainer.state.run_id # r
            => /\ trainer'.state.completed_steps = trainer.state.completed_steps
               /\ trainer'.state.total_steps = trainer.state.total_steps
               /\ trainer'.state.run_id = trainer.state.run_id
               /\ trainer'.state.status = trainer.state.status]_vars

\* rows of training_runs whose status is "running"
running_rows(t) == { r \in 1 .. Len(t.runs) : t.runs[r] = "running" }

\* start_training has raised RuntimeError in this step
start_rejected ==
    /\ trainer'.raised = "RuntimeError"
    /\ trainer.raised # "RuntimeError"

\* C30: at most one training run is active at a time, a run being active
\* while its task is pending or its row has status "running" (the worker
\* thread of a cancelled run may still be inside learn() next to the
\* thread of a newer run: that is the subject of C27).  A pending task
\* belongs to the current run, and only the current run's row has status
\* "running"; while a training task is still running no run record is
\* created and no task replaces it; a start_training() that raises
\* RuntimeError was called while the task was running and leaves the run
\* records, the TrainingState, the stop event, the task and the threads
\* as they were.
C30_OneRunAtATime ==
    /\ [](/\ running_rows(trainer) \subseteq { trainer.state.run_id }
          /\ task_running(trainer)
                => trainer.task.run = trainer.state.run_id)
    /\ [][/\ task_running(trainer)
             => /\ Len(trainer'.runs) = Len(trainer.runs)
                /\ trainer'.task.run \in { trainer.task.run, NoRun }
          /\ start_rejected
             => /\ task_running(trainer)
                /\ trainer'.runs = trainer.runs
                /\ trainer'.state = trainer.state
                /\ trainer'.stop_event = trainer.stop_event
                /\ trainer'.task = trainer.task
                /\ trainer'.threads = trainer.threads]_vars

\* start_training() has been rejected while run 1 was being trained
C30_Witness ==
    /\ trainer.raised = "RuntimeError"
    /\ task_running(trainer)
    /\ trainer.state.status = "running"
    /\ trainer.state.run_id = 1
    /\ trainer.threads[1].at = "learn"
    /\ trainer.runs = << "running" >>
    /\ ~trainer.stop_event

====
